---- MODULE Spec2Model ----
(***************************************************************************)
(* Relevance scoring and event selection of the plainly app, its AI        *)
(* extraction pipeline and the draft lifecycle of the admin screen.        *)
(*                                                                         *)
(* Times are epoch milliseconds (what Date.getTime() returns).  Texts are  *)
(* sequences of one-character strings, so that toLowerCase, trim and       *)
(* includes are computed, not assumed.                                     *)
(***************************************************************************)
EXTENDS Integers, Sequences, FiniteSets, TLC

VARIABLES
    clock,          \* the wall clock, read by `new Date()`
    user_profiles,  \* table user_profiles: a set of rows, id the primary key
    events,         \* table events: rows in insertion order
    resp,           \* what the selector request handled in this step returned
    scoreIn,        \* arguments of a direct calculateRelevanceScore call
    lastEval,       \* clock reading and result of the latest direct call
    prevEval,       \* the same for the call before it
    aiConfig,       \* what getAIConfig() returns (environment of the build)
    req,            \* the extractFromUrl request: position, locals, calls made
    event_drafts,   \* table event_drafts: rows in insertion order
    draftResp,      \* what the latest createDraft / updateDraft call returned
    form,           \* state of AdminScreen (the useState cells)
    user_event_reads, \* table user_event_reads: rows, unique per user and event
    screen,         \* state of EventScreen and the position of its loadEvent
    readResp,       \* what the latest markEventAsRead call was given and returned
    app             \* state of App, its handlers in flight and its timers

\* the admin side: untouched by the scorer and the selector
adminVars == <<aiConfig, req, event_drafts, draftResp, form>>

\* the reader's side: untouched by the scorer, the selector and the admin
clientVars == <<user_event_reads, screen, readResp, app>>

vars == <<clock, user_profiles, events, resp, scoreIn, lastEval, prevEval,
         adminVars, clientVars>>

----------------------------------------------------------------------------
(* Bounds of the model *)

MaxMs == 1          \* millisecond offsets at which the scorer is applied
MaxEvents == 2      \* rows the events table may hold
MaxLimit == 2       \* largest `limit` passed to getEventRecommendations
MaxLatency == 1     \* ms that may pass between the events query and scoring
MaxDrafts == 2      \* rows the event_drafts table may hold


----------------------------------------------------------------------------
(* Arithmetic helpers: Math.abs, Math.ceil(x / y), Math.max, Math.min *)

Abs(x) == IF x < 0 THEN -x ELSE x

CeilDiv(x, y) == IF x % y = 0 THEN x \div y ELSE (x \div y) + 1

Max(a, b) == IF a >= b THEN a ELSE b

Min(a, b) == IF a <= b THEN a ELSE b

DayMs == 1000 * 60 * 60 * 24

\* the instants at which the clock is observed while time passes
TimePoints == {0, 1, DayMs, DayMs + 1, 10 * DayMs}

----------------------------------------------------------------------------
(* Texts *)

UpperChars == <<"A","B","C","D","E","F","G","H","I","J","K","L","M",
                "N","O","P","Q","R","S","T","U","V","W","X","Y","Z">>

LowerChars == <<"a","b","c","d","e","f","g","h","i","j","k","l","m",
                "n","o","p","q","r","s","t","u","v","w","x","y","z">>

\* the lower-case form of every upper-case letter
LowerOf ==
    [c \in {UpperChars[i] : i \in 1..26} |->
        LowerChars[CHOOSE i \in 1..26 : UpperChars[i] = c]]

ToLowerChar(c) == IF c \in DOMAIN LowerOf THEN LowerOf[c] ELSE c

\* String.prototype.toLowerCase
ToLowerCase(s) == [i \in 1..Len(s) |-> ToLowerChar(s[i])]

IsWhitespace(c) == c \in {" ", "\t", "\n"}

RECURSIVE TrimStart(_)
TrimStart(s) ==
    IF s # <<>> /\ IsWhitespace(Head(s)) THEN TrimStart(Tail(s)) ELSE s

RECURSIVE TrimEnd(_)
TrimEnd(s) ==
    IF s # <<>> /\ IsWhitespace(s[Len(s)])
    THEN TrimEnd(SubSeq(s, 1, Len(s) - 1))
    ELSE s

\* String.prototype.trim
Trim(s) == TrimEnd(TrimStart(s))

\* p occurs in s at offset k
OccursAt(s, p, k) == \A j \in 1..Len(p) : s[k + j] = p[j]

\* String.prototype.includes: some offset of s at which p occurs
Includes(s, p) == \E k \in 0..(Len(s) - Len(p)) : OccursAt(s, p, k)

----------------------------------------------------------------------------
(* Types (types.ts) *)

Interests == {"money", "work", "health", "environment", "tech"}

CareerFields == {"technology", "finance", "healthcare", "education",
                 "government", "media", "retail", "manufacturing", "other"}

EventCategories == {"politics", "economy", "technology", "health",
                    "environment", "international", "social"}

\* a NULL career_field column (the column has no NOT NULL constraint)
NullCareer == "null"

\* a NULL or empty country
NoCountry == <<>>

----------------------------------------------------------------------------
(* utils/geographicRelevance.ts *)

SearchText(event) ==
    ToLowerCase(event.title \o <<" ">> \o event.whatHappened \o <<" ">>
                \o event.whyPeopleCare \o <<" ">> \o event.whatThisMeans)

\* variant: the country is searched for as written, without lower-casing
eventContainsCountry_CaseSensitive(event, country) ==
    IF country = NoCountry \/ Trim(country) = <<>>
    THEN FALSE
    ELSE Includes(event.title \o <<" ">> \o event.whatHappened \o <<" ">>
                  \o event.whyPeopleCare \o <<" ">> \o event.whatThisMeans,
                  Trim(country))

eventContainsCountry(event, country) ==
    IF country = NoCountry \/ Trim(country) = <<>>
    THEN FALSE
    ELSE \E searchText \in {SearchText(event)} :
         \E countryLower \in {Trim(ToLowerCase(country))} :
             Includes(searchText, countryLower)

----------------------------------------------------------------------------
(* utils/relevanceScoring.ts *)

\* interestCategoryMap: the categories an interest matches; an interest that
\* is no key of the map matches nothing
interestCategoryMap(interest) ==
    CASE interest = "money"       -> {"economy"}
      [] interest = "health"      -> {"health"}
      [] interest = "environment" -> {"environment"}
      [] interest = "tech"        -> {"technology"}
      [] interest = "work"        -> {"economy", "technology"}
      [] OTHER                    -> {}

\* careerCategoryMap: "" is falsy, as is the undefined of a missing key
careerCategoryMap(careerField) ==
    CASE careerField = "technology"    -> "technology"
      [] careerField = "finance"       -> "economy"
      [] careerField = "healthcare"    -> "health"
      [] careerField = "government"    -> "politics"
      [] careerField = "media"         -> "social"
      [] careerField = "education"     -> "social"
      [] careerField = "retail"        -> "economy"
      [] careerField = "manufacturing" -> "economy"
      [] OTHER                         -> ""

\* variant: the interest part capped at 40
InterestPoints_Capped(interests, category) ==
    IF \E k \in 1..Len(interests) : category \in interestCategoryMap(interests[k])
    THEN 40 ELSE 0

\* the forEach over profile.interests
RECURSIVE InterestPoints(_, _)
InterestPoints(interests, category) ==
    IF interests = <<>> THEN 0
    ELSE (IF category \in interestCategoryMap(Head(interests)) THEN 40 ELSE 0)
         + InterestPoints(Tail(interests), category)

\* variant: the difference taken without Math.abs
daysBetween_Signed(date1, date2) == CeilDiv(date2 - date1, DayMs)

\* variant: Math.floor in place of Math.ceil
daysBetween_Floor(date1, date2) == Abs(date2 - date1) \div DayMs

daysBetween(date1, date2) == CeilDiv(Abs(date2 - date1), DayMs)

RecencyPoints(createdAt, nowMs) == Max(0, 10 - daysBetween(createdAt, nowMs))

\* variant: the sum returned without Math.min(100, .)
calculateRelevanceScore_NoClamp(event, profile, nowMs) ==
    LET interestScore == InterestPoints(profile.interests, event.category)
        careerCategory == careerCategoryMap(profile.careerField)
        careerScore == IF careerCategory # "" /\ careerCategory = event.category
                       THEN 30 ELSE 0
        geoScore == IF profile.country # NoCountry
                       /\ eventContainsCountry(event, profile.country)
                    THEN 20 ELSE 0
    IN  interestScore + careerScore + geoScore
        + RecencyPoints(event.createdAt, nowMs)

\* nowMs is the value `new Date()` yields inside the call
calculateRelevanceScore(event, profile, nowMs) ==
    LET interestScore == InterestPoints(profile.interests, event.category)
        careerCategory == careerCategoryMap(profile.careerField)
        careerScore == IF careerCategory # "" /\ careerCategory = event.category
                       THEN 30 ELSE 0
        geoScore == IF profile.country # NoCountry
                       /\ eventContainsCountry(event, profile.country)
                    THEN 20 ELSE 0
    IN  Min(100, interestScore + careerScore + geoScore
                 + RecencyPoints(event.createdAt, nowMs))

----------------------------------------------------------------------------
(* Inputs explored *)

Txt_JapanMarketNews == <<"J","a","p","a","n"," ","m","a","r","k","e","t"," ","n","e","w","s">>

Txt_StocksRose == <<"S","t","o","c","k","s"," ","r","o","s","e">>

Txt_Jobs == <<"J","o","b","s">>

Txt_Costs == <<"C","o","s","t","s">>

Txt_VoteResults == <<"V","o","t","e"," ","r","e","s","u","l","t","s">>

Txt_UnrestInFrance == <<"U","n","r","e","s","t"," ","i","n"," ","F","R","A","N","C","E">>

Txt_Vote == <<"V","o","t","e">>

Txt_Calm == <<"C","a","l","m">>

Txt_JapanTrade == <<"J","A","P","A","N"," ","t","r","a","d","e">>

Txt_Japan == <<"J","a","p","a","n">>

Txt_FrancePadded == <<" ","F","r","a","n","c","e"," ">>

Txt_Blank == <<" "," ">>

JapanText == [title |-> Txt_JapanMarketNews, whatHappened |-> Txt_StocksRose,
              whyPeopleCare |-> Txt_Jobs, whatThisMeans |-> Txt_Costs]

FranceText == [title |-> Txt_VoteResults, whatHappened |-> Txt_UnrestInFrance,
               whyPeopleCare |-> Txt_Jobs, whatThisMeans |-> Txt_Costs]

LocalText == [title |-> Txt_Vote, whatHappened |-> Txt_Calm,
              whyPeopleCare |-> Txt_Jobs, whatThisMeans |-> Txt_Costs]

JapanTradeText == [title |-> Txt_Vote, whatHappened |-> Txt_JapanTrade,
                   whyPeopleCare |-> Txt_Jobs, whatThisMeans |-> Txt_Costs]

\* an events row as mapEventFromDb returns it
MkEvent(id, text, category, createdAt, expiresAt) ==
    [id |-> id, title |-> text.title, category |-> category,
     whatHappened |-> text.whatHappened, whyPeopleCare |-> text.whyPeopleCare,
     whatThisMeans |-> text.whatThisMeans,
     createdAt |-> createdAt, expiresAt |-> expiresAt]

InterestOrder == <<"money", "work", "health", "environment", "tech">>

\* every selection of interests, as the array the onboarding screen stores
InterestLists ==
    {SelectSeq(InterestOrder, LAMBDA i : i \in S) : S \in SUBSET Interests}

ScoreCountries == {NoCountry, Txt_Blank, Txt_Japan, Txt_FrancePadded}

ScoreProfiles ==
    [id : {"u1"}, interests : InterestLists,
     careerField : CareerFields \cup {NullCareer}, country : ScoreCountries]

ScoreEvents ==
    {MkEvent(1, tx, c, ca, ca + 12 * DayMs) :
        tx \in {JapanText, FranceText}, c \in EventCategories, ca \in {0, 1}}

\* no direct call is being made
NoInput == <<>>

NoEval == [now |-> -1, score |-> -1]


\* A response.  failure is the storage failure the request met, outcome the
\* branch that returned, now the clock reading of the request, scored the
\* scoredEvents the request computed; result holds the
\* events handed back (personalizeEvent keeps every Event field and adds the
\* personalized text): <<>> is null for getActiveEvent, [] for the list.
Response(op, userId, limit, now, failure, outcome, scored, result) ==
    [op |-> op, userId |-> userId, limit |-> limit, now |-> now,
     failure |-> failure, outcome |-> outcome,
     scored |-> scored, result |-> result]

NoResp == Response("none", "", 0, 0, "none", "", <<>>, <<>>)

----------------------------------------------------------------------------
(* Values of the admin side: JSON values, errors, ISO calendar dates *)

\* a JSON / JavaScript value: a string is its characters, a number its digits
JAbsent == [t |-> "undefined", v |-> <<>>]

JNull == [t |-> "null", v |-> <<>>]

JStr(s) == [t |-> "string", v |-> s]

JNum(digits) == [t |-> "number", v |-> digits]

\* JavaScript truthiness of a value (!x is its negation)
Truthy(j) ==
    CASE j.t = "string" -> j.v # <<>>
      [] j.t = "number" -> j.v # <<"0">>
      [] OTHER -> FALSE

\* x || null
OrNull(j) == IF Truthy(j) THEN j ELSE JNull

\* x || undefined
OrUndefined(j) == IF Truthy(j) THEN j ELSE JAbsent

\* x || ''
OrEmpty(j) == IF Truthy(j) THEN j ELSE JStr(<<>>)

\* typeof x === 'string' && x.trim() === ''
IsBlankString(j) == j.t = "string" /\ Trim(j.v) = <<>>

CH_politics == <<"p","o","l","i","t","i","c","s">>

CH_economy == <<"e","c","o","n","o","m","y">>

CH_technology == <<"t","e","c","h","n","o","l","o","g","y">>

CH_health == <<"h","e","a","l","t","h">>

CH_environment == <<"e","n","v","i","r","o","n","m","e","n","t">>

CH_international == <<"i","n","t","e","r","n","a","t","i","o","n","a","l">>

CH_social == <<"s","o","c","i","a","l">>

\* the spelling of the seven EventCategory values
CategoryChars ==
    [c \in EventCategories |->
        CASE c = "politics" -> CH_politics
          [] c = "economy" -> CH_economy
          [] c = "technology" -> CH_technology
          [] c = "health" -> CH_health
          [] c = "environment" -> CH_environment
          [] c = "international" -> CH_international
          [] c = "social" -> CH_social]

\* validCategories.includes(x): strict equality with one of the seven strings
IsValidCategory(j) ==
    j.t = "string" /\ \E c \in EventCategories : CategoryChars[c] = j.v

\* the EventCategory a valid spelling denotes
CategoryOf(chars) == CHOOSE c \in EventCategories : CategoryChars[c] = chars

\* an Error: the fixed part of its message, the field names and the value
\* interpolated into it
Err(text, fields, value) == [text |-> text, fields |-> fields, value |-> value]

NoError == Err("", <<>>, <<>>)

DigitChars == <<"0", "1", "2", "3", "4", "5", "6", "7", "8", "9">>

\* n written with `width` decimal digits, zero padded
RECURSIVE Digits(_, _)
Digits(n, width) ==
    IF width = 0 THEN <<>>
    ELSE Append(Digits(n \div 10, width - 1), DigitChars[(n % 10) + 1])

IsLeapYear(y) == (y % 4 = 0 /\ y % 100 # 0) \/ y % 400 = 0

DaysInYear(y) == IF IsLeapYear(y) THEN 366 ELSE 365

DaysInMonth(y, m) ==
    CASE m = 2 -> IF IsLeapYear(y) THEN 29 ELSE 28
      [] m \in {4, 6, 9, 11} -> 30
      [] OTHER -> 31

\* the UTC calendar date `days` days after the first of month m of year y
RECURSIVE CivilDate(_, _, _)
CivilDate(y, m, days) ==
    IF m = 1 /\ days >= DaysInYear(y) THEN CivilDate(y + 1, 1, days - DaysInYear(y))
    ELSE IF days >= DaysInMonth(y, m) THEN CivilDate(y, m + 1, days - DaysInMonth(y, m))
    ELSE [year |-> y, month |-> m, day |-> days + 1]

\* new Date(ms).toISOString().split('T')[0]
ToISODate(ms) ==
    LET d == CivilDate(1970, 1, ms \div DayMs)
    IN  Digits(d.year, 4) \o <<"-">> \o Digits(d.month, 2) \o <<"-">>
        \o Digits(d.day, 2)

\* the object parsed from the model's reply, before and after validation
Payload(title, date, category, wh, wpc, wtm) ==
    [title |-> title, date |-> date, category |-> category,
     what_happened |-> wh, why_people_care |-> wpc, what_this_means |-> wtm,
     what_likely_does_not_change |-> JNull]

NoPayload == Payload(JAbsent, JAbsent, JAbsent, JAbsent, JAbsent, JAbsent)

\* what JSON.parse returned: an object, null, or nothing yet
Parsed(kind, obj) == [kind |-> kind, obj |-> obj]

NoParsed == Parsed("none", NoPayload)

\* network and model calls issued by one request
NoCalls == [firecrawl |-> 0, fetch |-> 0, groq |-> 0, claude |-> 0]

\* no extractFromUrl request has been made
NoReq ==
    [pc |-> "idle", url |-> <<>>, content |-> <<>>, isMarkdown |-> FALSE,
     mainContent |-> <<>>, calls |-> NoCalls, firecrawlError |-> NoError,
     extracted |-> NoParsed, outcome |-> "none", result |-> NoPayload,
     error |-> NoError]

\* getAIConfig() of a build without any key: defaultConfig
DefaultConfig ==
    [service |-> "groq", firecrawlApiKey |-> FALSE, groqApiKey |-> FALSE,
     anthropicApiKey |-> FALSE]

\* a Partial<EventDraft>: the keys a caller of the draft service may pass
DraftFields(title, date, category, wh, wpc, wtm, wldnc, status) ==
    [title |-> title, date |-> date, category |-> category,
     whatHappened |-> wh, whyPeopleCare |-> wpc, whatThisMeans |-> wtm,
     whatLikelyDoesNotChange |-> wldnc, status |-> status]

\* status is a DraftStatus, or "undefined" when the key is not passed
NoFields ==
    DraftFields(JAbsent, JAbsent, JAbsent, JAbsent, JAbsent, JAbsent, JAbsent,
                "undefined")

\* what a draft service call returned: the mapped row, or null
\* failure tells whether storage refused or lost the request
DraftResponse(op, draftId, updates, failure, ok, draft) ==
    [op |-> op, draftId |-> draftId, updates |-> updates, failure |-> failure,
     ok |-> ok, draft |-> draft]

NoDraftResp == DraftResponse("none", 0, NoFields, FALSE, FALSE, <<>>)

\* a message shown by the admin screen
Msg(text) == Err(text, <<>>, <<>>)

\* AdminScreen's state cells as first rendered; currentDraftId 0 is null
InitialForm(today) ==
    [entryMode |-> "manual", url |-> <<>>, extracting |-> FALSE,
     currentDraftId |-> 0,
     title |-> <<>>, date |-> today, category |-> CH_politics,
     whatHappened |-> <<>>, whyPeopleCare |-> <<>>, whatThisMeans |-> <<>>,
     whatLikelyDoesNotChange |-> <<>>, expiresInDays |-> <<"7">>,
     loading |-> FALSE, message |-> Msg(""), messageType |-> "info"]

\* nothing has happened on the admin side
\* EventScreen before its first loadEvent: useState(null), useState(true)
NoScreen ==
    [pc |-> "idle", userId |-> "", event |-> <<>>, loading |-> TRUE,
     marked |-> "none"]

\* no markEventAsRead call has been made; before is the table the call met
NoReadResp ==
    [op |-> "none", userId |-> "", eventId |-> 0, failure |-> FALSE,
     ok |-> FALSE, before |-> {}]

\* the async handlers of App
AppHandlers == {"checkSession", "onAuthStateChange", "handleAuthSuccess"}

\* a handler that is not running
NoHandler == [pc |-> "idle", userId |-> "", deadline |-> 0]

\* no call of getUserProfile under way for a handler
NoCall == [pc |-> "none", userId |-> "", result |-> {}, awaited |-> FALSE,
           failure |-> FALSE]

\* App before it mounts: useState(true), useState(null), useState(null);
\* null is the empty set, a value v is {v}
NoApp ==
    [mounted |-> FALSE, loading |-> TRUE, user |-> {}, userProfile |-> {},
     t |-> 0, safety |-> "none",
     h |-> [x \in AppHandlers |-> NoHandler],
     call |-> [x \in AppHandlers |-> NoCall]]

ClientIdle ==
    /\ user_event_reads = {}
    /\ screen = NoScreen
    /\ readResp = NoReadResp
    /\ app = NoApp

AdminIdle ==
    /\ aiConfig = DefaultConfig
    /\ req = NoReq
    /\ event_drafts = <<>>
    /\ draftResp = NoDraftResp
    /\ form = InitialForm(ToISODate(0))

----------------------------------------------------------------------------
(* A direct call of the scorer *)

Evaluate ==
    /\ scoreIn # NoInput
    /\ lastEval' = [now |-> clock,
                    score |-> calculateRelevanceScore(scoreIn[1], scoreIn[2],
                                                      clock)]
    /\ prevEval' = lastEval
    /\ UNCHANGED <<adminVars, clientVars, clock, user_profiles, events, resp, scoreIn>>

\* time passes
Tick ==
    /\ \E t \in TimePoints : t > clock /\ clock' = t
    /\ resp' = NoResp
    /\ UNCHANGED <<adminVars, clientVars, user_profiles, events, scoreIn, lastEval, prevEval>>

\* clock readings at which the scorer is applied once
ScoreClocks == {d * DayMs + m : d \in {0, 1, 5, 9, 10}, m \in 0..MaxMs}

InitScore ==
    /\ AdminIdle
    /\ ClientIdle
    /\ clock \in ScoreClocks
    /\ scoreIn \in ScoreEvents \X ScoreProfiles
    /\ lastEval = NoEval
    /\ prevEval = NoEval
    /\ user_profiles = {}
    /\ events = <<>>
    /\ resp = NoResp

NextScore == Evaluate

\* the scorer applied once to every input and clock reading explored
SpecScore == InitScore /\ [][NextScore]_vars

ClockProfiles ==
    {[id |-> "u1", interests |-> <<"money">>, careerField |-> "finance",
      country |-> Txt_Japan],
     [id |-> "u1", interests |-> <<>>, careerField |-> NullCareer,
      country |-> NoCountry]}

ClockEvents ==
    {MkEvent(1, tx, c, ca, ca + 12 * DayMs) :
        tx \in {JapanText, FranceText}, c \in {"economy", "politics"},
        ca \in {0, 1}}

InitClock ==
    /\ AdminIdle
    /\ ClientIdle
    /\ clock = 0
    /\ scoreIn \in ClockEvents \X ClockProfiles
    /\ lastEval = NoEval
    /\ prevEval = NoEval
    /\ user_profiles = {}
    /\ events = <<>>
    /\ resp = NoResp

NextClock == Tick \/ Evaluate

\* the scorer applied repeatedly to one input while time passes
SpecClock == InitClock /\ [][NextClock]_vars

----------------------------------------------------------------------------
(* Storage (supabase): the queries the selectors issue *)

Users == {"u1"}

\* .from('user_profiles').select('*').eq('id', userId)
ProfileRows(userId) == {p \in user_profiles : p.id = userId}

\* variant: .gte in place of .gt
NonExpired_Inclusive(now) == SelectSeq(events, LAMBDA e : e.expiresAt >= now)

\* .gt('expires_at', now): the rows whose expiration is after now
NonExpired(now) == SelectSeq(events, LAMBDA e : e.expiresAt > now)

Permute(s, f) == [i \in 1..Len(s) |-> s[f[i]]]

Bijections(n) == {f \in [1..n -> 1..n] : \A i, j \in 1..n : f[i] = f[j] => i = j}

\* as EventsQuery, but the events some user has a read receipt for are left out
EventsQuery_Unread(now) ==
    LET rows == SelectSeq(NonExpired(now),
                          LAMBDA e : \A r \in user_event_reads : r.event_id # e.id)
    IN  {q \in {Permute(rows, f) : f \in Bijections(Len(rows))} :
            \A i \in 1..(Len(q) - 1) : q[i].createdAt >= q[i + 1].createdAt}

\* .order('created_at', { ascending: false }): the order of rows created at
\* the same instant is the database's choice
EventsQuery(now) ==
    LET rows == NonExpired(now)
    IN  {q \in {Permute(rows, f) : f \in Bijections(Len(rows))} :
            \A i \in 1..(Len(q) - 1) : q[i].createdAt >= q[i + 1].createdAt}

----------------------------------------------------------------------------
(* services/eventService.ts *)

MIN_RELEVANCE_THRESHOLD == 20

\* variant: ties broken by creation time ascending
compareScored_OldestFirst(a, b) ==
    IF b.score # a.score
    THEN b.score - a.score
    ELSE a.event.createdAt - b.event.createdAt

\* the comparator of both selectors: negative when a sorts before b
compareScored(a, b) ==
    IF b.score # a.score
    THEN b.score - a.score
    ELSE b.event.createdAt - a.event.createdAt

\* the comparator of the fallback sort
compareByDate(a, b) == b.createdAt - a.createdAt

\* Array.prototype.sort is stable: an element goes behind its equals
RECURSIVE InsertScored(_, _)
InsertScored(s, x) ==
    IF s = <<>> THEN <<x>>
    ELSE IF compareScored(Head(s), x) > 0 THEN <<x>> \o s
    ELSE <<Head(s)>> \o InsertScored(Tail(s), x)

RECURSIVE SortScored(_)
SortScored(s) ==
    IF s = <<>> THEN <<>>
    ELSE InsertScored(SortScored(SubSeq(s, 1, Len(s) - 1)), s[Len(s)])

RECURSIVE InsertByDate(_, _)
InsertByDate(s, x) ==
    IF s = <<>> THEN <<x>>
    ELSE IF compareByDate(Head(s), x) > 0 THEN <<x>> \o s
    ELSE <<Head(s)>> \o InsertByDate(Tail(s), x)

RECURSIVE SortByDate(_)
SortByDate(s) ==
    IF s = <<>> THEN <<>>
    ELSE InsertByDate(SortByDate(SubSeq(s, 1, Len(s) - 1)), s[Len(s)])

\* mappedEvents.map(event => ({event, score: calculateRelevanceScore(...)}))
ScoreAll(rows, profile, nowMs) ==
    [i \in 1..Len(rows) |->
        [event |-> rows[i],
         score |-> calculateRelevanceScore(rows[i], profile, nowMs)]]

\* variant: > in place of >=
FilterRelevant_Exclusive(scored) ==
    SelectSeq(scored, LAMBDA se : se.score > MIN_RELEVANCE_THRESHOLD)

\* scoredEvents.filter(se => se.score >= MIN_RELEVANCE_THRESHOLD)
FilterRelevant(scored) ==
    SelectSeq(scored, LAMBDA se : se.score >= MIN_RELEVANCE_THRESHOLD)

\* Array.prototype.slice(0, limit) for limit >= 0
Slice(s, limit) == SubSeq(s, 1, Min(limit, Len(s)))

\* variant: null when no event meets the threshold
SelectActive_NoFallback(rows, scored) ==
    LET relevantEvents == SortScored(FilterRelevant(scored))
    IN  IF Len(relevantEvents) > 0
        THEN <<relevantEvents[1].event>>
        ELSE <<>>

\* what getActiveEvent hands back for a non-empty query result
SelectActive(rows, scored) ==
    LET relevantEvents == SortScored(FilterRelevant(scored))
    IN  IF Len(relevantEvents) > 0
        THEN <<relevantEvents[1].event>>
        ELSE <<SortByDate(rows)[1]>>

\* variant: the threshold filter of getActiveEvent applied to the list
SelectTop_Filtered(scored, limit) ==
    LET sorted == SortScored(FilterRelevant(scored))
        top == Slice(sorted, limit)
    IN  [i \in 1..Len(top) |-> top[i].event]

\* the events getEventRecommendations picks from a non-empty query result
SelectTop(scored, limit) ==
    LET sorted == SortScored(scored)
        top == Slice(sorted, limit)
    IN  [i \in 1..Len(top) |-> top[i].event]

\* which of a request's two queries fails, if any
Failures == {"none", "profile", "events"}

\* the branch a selector returns from
Outcome(userId, failure, rows) ==
    IF failure = "profile" \/ ProfileRows(userId) = {} THEN "no_profile"
    ELSE IF failure = "events" THEN "events_error"
    ELSE IF rows = <<>> THEN "no_events"
    ELSE "ok"

\* the scoredEvents of a request that got as far as scoring, else none
ScoredFor(userId, outcome, rows, nowMs) ==
    IF outcome = "ok"
    THEN ScoreAll(rows, CHOOSE p \in ProfileRows(userId) : TRUE, nowMs)
    ELSE <<>>

\* rows is the answer of the events query, failure the storage failure met,
\* scoreAt the clock reading once the events query has returned
getActiveEvent(userId) ==
    \E rows \in EventsQuery(clock) :
    \E failure \in Failures :
    \E scoreAt \in {t \in TimePoints : clock <= t /\ t <= clock + MaxLatency} :
    \E outcome \in {Outcome(userId, failure, rows)} :
    \E scored \in {ScoredFor(userId, outcome, rows, scoreAt)} :
        /\ resp' = Response("getActiveEvent", userId, 1, clock, failure, outcome,
                            scored,
                            IF outcome = "ok" THEN SelectActive(rows, scored)
                            ELSE <<>>)
        /\ clock' = scoreAt
        /\ UNCHANGED <<adminVars, clientVars, user_profiles, events, scoreIn, lastEval, prevEval>>

getEventRecommendations(userId, limit) ==
    \E rows \in EventsQuery(clock) :
    \E failure \in Failures :
    \E scoreAt \in {t \in TimePoints : clock <= t /\ t <= clock + MaxLatency} :
    \E outcome \in {Outcome(userId, failure, rows)} :
    \E scored \in {ScoredFor(userId, outcome, rows, scoreAt)} :
        /\ resp' = Response("getEventRecommendations", userId, limit, clock,
                            failure, outcome, scored,
                            IF outcome = "ok" THEN SelectTop(scored, limit)
                            ELSE <<>>)
        /\ clock' = scoreAt
        /\ UNCHANGED <<adminVars, clientVars, user_profiles, events, scoreIn, lastEval, prevEval>>

\* createEvent as the admin screen calls it: expiresAt is the client's
\* clock plus expiresInDays days, created_at the database's NOW()
createEvent(text, category, expiresInDays) ==
    /\ Len(events) < MaxEvents
    /\ events' = Append(events,
                        MkEvent(Len(events) + 1, text, category, clock,
                                clock + expiresInDays * DayMs))
    /\ resp' = NoResp
    /\ UNCHANGED <<adminVars, clientVars, clock, user_profiles, scoreIn, lastEval, prevEval>>

----------------------------------------------------------------------------
(* The selector over a growing events table *)

ProfileA == [id |-> "u1", interests |-> <<"money">>, careerField |-> "finance",
             country |-> Txt_Japan]

\* what the admin submits: texts, category and the 'expires in days' input
Submissions ==
    {[text |-> LocalText, category |-> "politics", expiresInDays |-> 1],
     [text |-> LocalText, category |-> "politics", expiresInDays |-> 12],
     [text |-> JapanTradeText, category |-> "social", expiresInDays |-> 12]}

InitSelect ==
    /\ AdminIdle
    /\ ClientIdle
    /\ clock = 0
    /\ user_profiles \in {{}, {ProfileA}}
    /\ events = <<>>
    /\ resp = NoResp
    /\ scoreIn = NoInput
    /\ lastEval = NoEval
    /\ prevEval = NoEval

NextSelect ==
    \/ Tick
    \/ \E sub \in Submissions :
          createEvent(sub.text, sub.category, sub.expiresInDays)
    \/ \E u \in Users : getActiveEvent(u)
    \/ \E u \in Users, n \in 0..MaxLimit : getEventRecommendations(u, n)

SpecSelect == InitSelect /\ [][NextSelect]_vars

----------------------------------------------------------------------------
(* Content fetching: URL normalisation and the two fetchers *)

StartsWith(s, p) == Len(s) >= Len(p) /\ SubSeq(s, 1, Len(p)) = p

CH_http == <<"h","t","t","p",":","/","/">>

CH_https == <<"h","t","t","p","s",":","/","/">>

\* index of the first element of s at or after i that lies in set, else Len(s) + 1
IndexOfAny(s, set, i) ==
    LET hits == {k \in i..Len(s) : s[k] \in set}
    IN  IF hits = {} THEN Len(s) + 1
        ELSE CHOOSE k \in hits : \A h \in hits : k <= h

\* new URL(u) for u starting with http:// or https://, and its toString():
\* the authority ends at the first / ? or #, the host at the first colon;
\* an empty host, a blank in the host or a non-numeric port is a TypeError;
\* the host is lower-cased, an empty port dropped, an empty path becomes /
ParseUrl(u) ==
    LET scheme == IF StartsWith(u, CH_https) THEN CH_https ELSE CH_http
        rest == SubSeq(u, Len(scheme) + 1, Len(u))
        authEnd == IndexOfAny(rest, {"/", "?", "#"}, 1)
        authority == SubSeq(rest, 1, authEnd - 1)
        path == SubSeq(rest, authEnd, Len(rest))
        hostEnd == IndexOfAny(authority, {":"}, 1)
        host == SubSeq(authority, 1, hostEnd - 1)
        port == SubSeq(authority, hostEnd + 1, Len(authority))
        valid == /\ host # <<>>
                 /\ \A i \in 1..Len(host) : ~IsWhitespace(host[i])
                 /\ \A i \in 1..Len(port) :
                       \E d \in 1..10 : DigitChars[d] = port[i]
    IN  [valid |-> valid,
         href |-> scheme \o ToLowerCase(host)
                  \o (IF port = <<>> THEN <<>> ELSE <<":">> \o port)
                  \o (IF path = <<>> \/ path[1] # "/" THEN <<"/">> ELSE <<>>)
                  \o path]

\* the URL checks both fetchers make before any network request:
\* the request URL, or the Error thrown
NormalizeUrl(url) ==
    LET trimmedUrl == Trim(url)
        urlToValidate ==
            IF ~StartsWith(trimmedUrl, CH_http) /\ ~StartsWith(trimmedUrl, CH_https)
            THEN CH_https \o trimmedUrl
            ELSE trimmedUrl
        urlObj == ParseUrl(urlToValidate)
    IN  IF trimmedUrl = <<>>
        THEN [ok |-> FALSE, finalUrl |-> <<>>,
              error |-> Err("URL cannot be empty", <<>>, <<>>)]
        ELSE IF ~urlObj.valid
        THEN [ok |-> FALSE, finalUrl |-> <<>>,
              error |-> Err("Invalid URL format", <<>>, trimmedUrl)]
        ELSE [ok |-> TRUE, finalUrl |-> urlObj.href, error |-> NoError]

\* n copies of character c
Rep(c, n) == [i \in 1..n |-> c]

\* the elements of s at the indexes lo..hi that keep marks TRUE, in order
RECURSIVE KeepBetween(_, _, _, _)
KeepBetween(s, keep, lo, hi) ==
    IF lo > hi THEN <<>>
    ELSE IF lo = hi THEN (IF keep[lo] THEN <<s[lo]>> ELSE <<>>)
    ELSE KeepBetween(s, keep, lo, (lo + hi) \div 2)
         \o KeepBetween(s, keep, ((lo + hi) \div 2) + 1, hi)

KeepFrom(s, i, keep) == KeepBetween(s, keep, i, Len(s))

\* String.prototype.substring(0, n)
Substring0(s, n) == SubSeq(s, 1, Min(n, Len(s)))

MarkdownLimit == 12000

HtmlLimit == 8000

\* an HTML page is a sequence of tokens: a character, a tag or an entity
HtmlTags == {"<script>", "</script>", "<style>", "</style>", "<article>",
             "</article>", "<main>", "</main>", "<p>", "</p>"}

HtmlEntities ==
    [e \in {"&nbsp;", "&amp;", "&lt;", "&gt;", "&quot;", "&#39;"} |->
        CASE e = "&nbsp;" -> " "
          [] e = "&amp;" -> "&"
          [] e = "&lt;" -> "<"
          [] e = "&gt;" -> ">"
          [] e = "&quot;" -> "\""
          [] e = "&#39;" -> "'"]

\* replace(/<open>[\s\S]*?<close>/g, ''): drop each block from an opening
\* tag to the next closing tag; position k lies in such a block when an
\* opening tag at or before k has no closing tag before k but one from k on
RemoveBlocks(s, i, open, close) ==
    KeepFrom(s, i, [k \in 1..Len(s) |->
        ~\E o \in 1..k :
            /\ s[o] = open
            /\ \A m \in (o + 1)..(k - 1) : s[m] # close
            /\ \E j \in Max(k, o + 1)..Len(s) : s[j] = close])

\* text.match(/<open>([\s\S]*?)<\/close>/i): the inside of the first
\* container, if there is one
MatchContainer(s, open, close) ==
    LET i == IndexOfAny(s, {open}, 1)
        j == IndexOfAny(s, {close}, i + 1)
    IN  IF i <= Len(s) /\ j <= Len(s)
        THEN [found |-> TRUE, inner |-> SubSeq(s, i + 1, j - 1)]
        ELSE [found |-> FALSE, inner |-> <<>>]

\* replace(/\s+/g, ' ')
CollapseWhitespace(s) ==
    LET kept == KeepFrom(s, 1, [i \in 1..Len(s) |->
                    ~(IsWhitespace(s[i]) /\ i > 1 /\ IsWhitespace(s[i - 1]))])
    IN  [i \in 1..Len(kept) |-> IF IsWhitespace(kept[i]) THEN " " ELSE kept[i]]

\* replace(/\n{3,}/g, '\n\n')
CollapseNewlines(s) ==
    KeepFrom(s, 1, [i \in 1..Len(s) |->
        ~(s[i] = "\n" /\ i > 2 /\ s[i - 1] = "\n" /\ s[i - 2] = "\n")])

\* as extractMainContent, but the cleaned text is not trimmed
extractMainContent_NoTrim(content, isMarkdown) ==
    IF isMarkdown
    THEN Substring0(CollapseNewlines(content), MarkdownLimit)
    ELSE LET noScript == RemoveBlocks(content, 1, "<script>", "</script>")
             noStyle == RemoveBlocks(noScript, 1, "<style>", "</style>")
             articleMatch == MatchContainer(noStyle, "<article>", "</article>")
             text == IF articleMatch.found THEN articleMatch.inner ELSE noStyle
             noTags == [i \in 1..Len(text) |->
                           IF text[i] \in HtmlTags THEN " "
                           ELSE IF text[i] \in DOMAIN HtmlEntities
                           THEN HtmlEntities[text[i]]
                           ELSE text[i]]
         IN  Substring0(CollapseWhitespace(noTags), HtmlLimit)

extractMainContent(content, isMarkdown) ==
    IF isMarkdown
    THEN Substring0(Trim(CollapseNewlines(content)), MarkdownLimit)
    ELSE LET noScript == RemoveBlocks(content, 1, "<script>", "</script>")
             noStyle == RemoveBlocks(noScript, 1, "<style>", "</style>")
             articleMatch == MatchContainer(noStyle, "<article>", "</article>")
             mainMatch == MatchContainer(noStyle, "<main>", "</main>")
             text == IF articleMatch.found THEN articleMatch.inner
                     ELSE IF mainMatch.found THEN mainMatch.inner
                     ELSE noStyle
             noTags == [i \in 1..Len(text) |->
                           IF text[i] \in HtmlTags THEN " "
                           ELSE IF text[i] \in DOMAIN HtmlEntities
                           THEN HtmlEntities[text[i]]
                           ELSE text[i]]
         IN  Substring0(Trim(CollapseWhitespace(noTags)), HtmlLimit)

----------------------------------------------------------------------------
(* Parsing and validating the model's reply *)

\* the value a function returned, or the Error it threw
Value(v) == [ok |-> TRUE, value |-> v, error |-> NoError]

Throws(e) == [ok |-> FALSE, value |-> NoParsed, error |-> e]

\* the text of a reply: empty, malformed JSON, the JSON literal null, a JSON
\* object, an object inside a ``` fence, or an object with prose around it
ReplyKinds == {"empty", "malformed", "null", "object", "fenced", "wrapped"}

Reply(kind, obj) == [kind |-> kind, obj |-> obj]

parseJsonResponse(responseText) ==
    CASE responseText.kind \in {"object", "fenced", "wrapped"} ->
            Value(Parsed("object", responseText.obj))
      [] responseText.kind = "null" -> Value(Parsed("null", NoPayload))
      [] OTHER -> Throws(Err("Failed to parse JSON", <<>>, <<>>))

RequiredFields == <<"title", "what_happened", "why_people_care", "what_this_means">>

\* !x || (typeof x === 'string' && x.trim() === '')
IsMissing(j) == ~Truthy(j) \/ IsBlankString(j)

\* as missingFields, but the check stops at the first missing field
missingFields_FirstOnly(extracted) ==
    LET all == SelectSeq(RequiredFields, LAMBDA f : IsMissing(extracted[f]))
    IN  SubSeq(all, 1, Min(1, Len(all)))

missingFields(extracted) ==
    SelectSeq(RequiredFields, LAMBDA f : IsMissing(extracted[f]))

CH_missing == <<"m","i","s","s","i","n","g">>

\* as categoryAccepted, but the comparison ignores case
categoryAccepted_IgnoreCase(category) ==
    /\ Truthy(category)
    /\ category.t = "string"
    /\ \E c \in EventCategories : CategoryChars[c] = ToLowerCase(category.v)

\* !(!extracted.category || !validCategories.includes(extracted.category))
categoryAccepted(category) == Truthy(category) /\ IsValidCategory(category)

\* if (!extracted.date) extracted.date = new Date().toISOString().split('T')[0]
defaultDate(date, nowMs) ==
    IF ~Truthy(date) THEN JStr(ToISODate(nowMs)) ELSE date

\* as validateExtractedData, but the category is checked together with the
\* fields and one error reports both
validateExtractedData_AllViolations(extracted, nowMs) ==
    IF extracted.kind # "object"
    THEN Throws(Err("TypeError: Cannot read properties of null", <<>>, <<>>))
    ELSE IF missingFields(extracted.obj) # <<>>
            \/ ~categoryAccepted(extracted.obj.category)
    THEN Throws(Err(IF missingFields(extracted.obj) # <<>>
                    THEN "Extraction missing required fields"
                    ELSE "Invalid category",
                    missingFields(extracted.obj),
                    IF categoryAccepted(extracted.obj.category) THEN <<>>
                    ELSE IF Truthy(extracted.obj.category)
                    THEN extracted.obj.category.v ELSE CH_missing))
    ELSE Value([extracted.obj EXCEPT
                   !.date = defaultDate(extracted.obj.date, nowMs)])

\* validateExtractedData applied to what JSON.parse returned, at clock nowMs
validateExtractedData(extracted, nowMs) ==
    IF extracted.kind # "object"
    THEN Throws(Err("TypeError: Cannot read properties of null", <<>>, <<>>))
    ELSE IF missingFields(extracted.obj) # <<>>
    THEN Throws(Err("Extraction missing required fields",
                    missingFields(extracted.obj), <<>>))
    ELSE IF ~categoryAccepted(extracted.obj.category)
    THEN Throws(Err("Invalid category", <<>>,
                    IF Truthy(extracted.obj.category)
                    THEN extracted.obj.category.v ELSE CH_missing))
    ELSE Value([extracted.obj EXCEPT
                      !.date = defaultDate(extracted.obj.date, nowMs)])

----------------------------------------------------------------------------
(* extractFromUrl: fetch, clean, call the model, parse, validate *)

MinContentLength == 100

\* the request ends by throwing e / by returning v
\* as Fail, but the failing stage stays current and is attempted again
Fail_RetryStage(r, e) == [r EXCEPT !.error = e]

Fail(r, e) == [r EXCEPT !.pc = "done", !.outcome = "thrown", !.error = e]

Succeed(r, v) == [r EXCEPT !.pc = "done", !.outcome = "returned", !.result = v]

\* extractFromUrl up to its first fetch: Firecrawl if a key is configured
BeginRequest(url) ==
    [NoReq EXCEPT !.url = url,
                  !.pc = IF aiConfig.firecrawlApiKey THEN "firecrawl" ELSE "fetch"]

\* a Markdown document whose cleaned form has n characters
MarkdownDoc(n) ==
    <<"#", " ", "T", "\n", "\n", "\n", "\n">> \o Rep("a", n - 5) \o <<" ">>

\* an HTML page whose cleaned form has n characters
HtmlDoc(n) ==
    <<"<script>", "x", "</script>", "<article>", "<p>">> \o Rep("a", n - 3)
    \o <<"&amp;", " ", " ", "b", "</p>", "</article>", "z">>

ContentLengths == {MinContentLength - 1, MinContentLength}

\* answers of the scraping API: status 0 is a rejected fetch
FirecrawlOutcomes ==
    {[status |-> st, hasData |-> FALSE, content |-> <<>>] :
        st \in {0, 400, 401, 402, 429, 503, 200}}
    \cup {[status |-> 200, hasData |-> TRUE, content |-> c] :
            c \in {<<>>} \cup {MarkdownDoc(n) : n \in ContentLengths}}

\* fetchContentFromFirecrawl from the API's answer `out` on
FirecrawlResult(out) ==
    CASE out.status = 0 ->
            Throws(Err("Network request failed", <<>>, <<>>))
      [] out.status = 401 ->
            Throws(Err("Firecrawl API key is invalid", <<>>, <<>>))
      [] out.status = 429 ->
            Throws(Err("Firecrawl rate limit exceeded", <<>>, <<>>))
      [] out.status = 402 ->
            Throws(Err("Firecrawl credits exhausted", <<>>, <<>>))
      [] out.status >= 500 ->
            Throws(Err("Firecrawl server error", <<>>, Digits(out.status, 3)))
      [] out.status # 200 ->
            Throws(Err("Firecrawl API error", <<>>, Digits(out.status, 3)))
      [] ~out.hasData ->
            Throws(Err("Firecrawl returned empty response", <<>>, <<>>))
      [] out.content = <<>> ->
            Throws(Err("Firecrawl returned empty content from the URL", <<>>, <<>>))
      [] OTHER -> Value(out.content)

\* as fetchContentFromFirecrawl, but a failure of the scraping API ends
\* the request
fetchContentFromFirecrawl_NoFallback(out) ==
    /\ req.pc = "firecrawl"
    /\ \E norm \in {NormalizeUrl(req.url)} :
          IF ~norm.ok
          THEN req' = Fail(req, norm.error)
          ELSE \E res \in {FirecrawlResult(out)} :
                  req' = IF res.ok
                         THEN [req EXCEPT !.calls.firecrawl = @ + 1,
                                  !.content = res.value, !.isMarkdown = TRUE,
                                  !.pc = "extract"]
                         ELSE Fail([req EXCEPT !.calls.firecrawl = @ + 1,
                                       !.firecrawlError = res.error], res.error)
    /\ UNCHANGED <<clientVars, clock, user_profiles, events, resp, scoreIn, lastEval,
                   prevEval, aiConfig, event_drafts, draftResp, form>>

fetchContentFromFirecrawl(out) ==
    /\ req.pc = "firecrawl"
    /\ \E norm \in {NormalizeUrl(req.url)} :
          IF ~aiConfig.firecrawlApiKey
          THEN req' = [req EXCEPT !.pc = "fetch",
                          !.firecrawlError =
                              Err("Firecrawl API key is not configured", <<>>, <<>>)]
          ELSE IF ~norm.ok
          THEN req' = [req EXCEPT !.pc = "fetch", !.firecrawlError = norm.error]
          ELSE \E res \in {FirecrawlResult(out)} :
                  req' = IF res.ok
                         THEN [req EXCEPT !.calls.firecrawl = @ + 1,
                                  !.content = res.value, !.isMarkdown = TRUE,
                                  !.pc = "extract"]
                         ELSE [req EXCEPT !.calls.firecrawl = @ + 1,
                                  !.firecrawlError = res.error, !.pc = "fetch"]
    /\ UNCHANGED <<clientVars, clock, user_profiles, events, resp, scoreIn, lastEval,
                   prevEval, aiConfig, event_drafts, draftResp, form>>

\* answers of the web server: status 0 is a rejected fetch, kind its message
FetchOutcomes ==
    {[status |-> 0, kind |-> k, content |-> <<>>] :
        k \in {"Network request failed", "CORS", "other"}}
    \cup {[status |-> st, kind |-> "", content |-> <<>>] :
            st \in {403, 404, 429, 500, 418, 200}}
    \cup {[status |-> 200, kind |-> "", content |-> c] :
            c \in {<<"<p>", "</p>">>} \cup {HtmlDoc(n) : n \in ContentLengths}}

\* fetchHtmlFromUrl from the server's answer on
FetchResult(out) ==
    CASE out.status = 0 /\ out.kind = "Network request failed" ->
            Throws(Err("Network error: Unable to reach the URL", <<>>, <<>>))
      [] out.status = 0 /\ out.kind = "CORS" ->
            Throws(Err("CORS error: The website blocked the request", <<>>, <<>>))
      [] out.status = 0 ->
            Throws(Err("Failed to fetch URL", <<>>, <<>>))
      [] out.status = 403 -> Throws(Err("403 Forbidden", <<>>, <<>>))
      [] out.status = 404 -> Throws(Err("404 Not Found", <<>>, <<>>))
      [] out.status = 429 -> Throws(Err("429 Too Many Requests", <<>>, <<>>))
      [] out.status >= 500 ->
            Throws(Err("Server Error", <<>>, Digits(out.status, 3)))
      [] out.status # 200 ->
            Throws(Err("Failed to fetch URL", <<>>, Digits(out.status, 3)))
      [] out.content = <<>> ->
            Throws(Err("Received empty response from the URL", <<>>, <<>>))
      [] OTHER -> Value(out.content)

fetchHtmlFromUrl(out) ==
    /\ req.pc = "fetch"
    /\ \E norm \in {NormalizeUrl(req.url)} :
          IF ~norm.ok
          THEN req' = Fail(req, norm.error)
          ELSE \E res \in {FetchResult(out)} :
                  req' = IF res.ok
                         THEN [req EXCEPT !.calls.fetch = @ + 1,
                                  !.content = res.value, !.isMarkdown = FALSE,
                                  !.pc = "extract"]
                         ELSE Fail([req EXCEPT !.calls.fetch = @ + 1], res.error)
    /\ UNCHANGED <<clientVars, clock, user_profiles, events, resp, scoreIn, lastEval,
                   prevEval, aiConfig, event_drafts, draftResp, form>>

\* the switch of extractFromHtml: the provider function it calls, or why not
Provider(config) ==
    CASE config.service = "groq" -> "groq"
      [] config.service = "claude" -> "claude"
      [] config.service = "openai" -> "not implemented"
      [] config.service = "firecrawl" ->
            IF config.groqApiKey THEN "groq"
            ELSE IF config.anthropicApiKey THEN "claude"
            ELSE "no key"
      [] OTHER -> "unsupported"

CH_sports == <<"s","p","o","r","t","s">>

CH_Politics == <<"P","o","l","i","t","i","c","s">>

CH_date == <<"2","0","2","4","-","0","1","-","0","5">>

FieldOk == JStr(<<"x">>)

\* a required field as the model may give it: absent, blank, or filled
FieldCases == {JAbsent, JStr(<<" ", " ">>), FieldOk}

CategoryCases ==
    {JAbsent, JStr(CH_politics), JStr(CH_social), JStr(CH_sports),
     JStr(CH_Politics)}

DateCases == {JAbsent, JNull, JStr(<<>>), JStr(<<" ">>), JStr(CH_date)}

\* objects the model may answer with
ModelPayloads ==
    {Payload(t, JStr(CH_date), c, wh, wpc, wtm) :
        t \in FieldCases, c \in CategoryCases, wh \in FieldCases,
        wpc \in FieldCases, wtm \in FieldCases}
    \cup {Payload(t, d, c, FieldOk, FieldOk, FieldOk) :
            t \in {FieldOk, JNull, JStr(<<>>), JNum(<<"0">>), JNum(<<"7">>)},
            d \in DateCases,
            c \in {JStr(CH_politics), JStr(CH_sports), JNum(<<"7">>)}}

GoodPayload == Payload(FieldOk, JStr(CH_date), JStr(CH_politics), FieldOk, FieldOk, FieldOk)

ModelReplies ==
    {Reply("object", p) : p \in ModelPayloads}
    \cup {Reply(k, GoodPayload) : k \in {"fenced", "wrapped"}}
    \cup {Reply(k, NoPayload) : k \in {"empty", "malformed", "null"}}

\* what the model call does: it rejects, or resolves with a reply
ModelOutcomes ==
    {[failed |-> TRUE, reply |-> Reply("empty", NoPayload)]}
    \cup {[failed |-> FALSE, reply |-> rp] : rp \in ModelReplies}

\* as HandleReply, but a reply that does not parse is handed on to the
\* validation
HandleReply_GoesOn(r, reply, wrap, nowMs) ==
    LET parsed == parseJsonResponse(reply)
        seen == IF parsed.ok THEN parsed.value ELSE Parsed("null", NoPayload)
        checked == validateExtractedData(seen, nowMs)
    IN  IF checked.ok THEN Succeed([r EXCEPT !.extracted = seen], checked.value)
        ELSE Fail([r EXCEPT !.extracted = parsed.value], checked.error)

\* parse and validate a reply; wrap is the message a provider function puts
\* around a parse failure
HandleReply(r, reply, wrap, nowMs) ==
    LET parsed == parseJsonResponse(reply)
        withParsed == [r EXCEPT !.extracted = parsed.value]
        checked == validateExtractedData(parsed.value, nowMs)
    IN  IF ~parsed.ok THEN Fail(r, Err(wrap, <<>>, <<>>))
        ELSE IF checked.ok THEN Succeed(withParsed, checked.value)
        ELSE Fail(withParsed, checked.error)

\* outs: what the call of the model may do
extractFromHtmlWithGroq(outs) ==
    /\ req.pc = "extract"
    /\ Provider(aiConfig) = "groq"
    /\ \E mainContent \in {extractMainContent(req.content, req.isMarkdown)} :
       \E cleaned \in {[req EXCEPT !.mainContent = mainContent]} :
       \E called \in {[cleaned EXCEPT !.calls.groq = @ + 1]} :
          IF ~aiConfig.groqApiKey
          THEN req' = Fail(req, Err("Groq API key is not configured", <<>>, <<>>))
          ELSE IF Len(mainContent) < MinContentLength
          THEN req' = Fail(cleaned,
                           Err("Could not extract sufficient content from the webpage",
                               <<>>, <<>>))
          ELSE \E out \in outs :
                  req' = IF out.failed
                         THEN Fail(called, Err("Groq request failed", <<>>, <<>>))
                         ELSE IF out.reply.kind = "empty"
                         THEN Fail(called,
                                   Err("Empty response from Groq API", <<>>, <<>>))
                         ELSE HandleReply(called, out.reply,
                                          "Failed to parse AI response as JSON",
                                          clock)
    /\ UNCHANGED <<clientVars, clock, user_profiles, events, resp, scoreIn, lastEval,
                   prevEval, aiConfig, event_drafts, draftResp, form>>

extractFromHtmlWithClaude(outs) ==
    /\ req.pc = "extract"
    /\ Provider(aiConfig) = "claude"
    /\ \E mainContent \in {extractMainContent(req.content, req.isMarkdown)} :
       \E cleaned \in {[req EXCEPT !.mainContent = mainContent]} :
       \E called \in {[cleaned EXCEPT !.calls.claude = @ + 1]} :
          IF ~aiConfig.anthropicApiKey
          THEN req' = Fail(req, Err("Anthropic API key is not configured", <<>>, <<>>))
          ELSE IF Len(mainContent) < MinContentLength
          THEN req' = Fail(cleaned,
                           Err("Could not extract sufficient content from the webpage",
                               <<>>, <<>>))
          ELSE \E out \in outs :
                  req' = IF out.failed
                         THEN Fail(called, Err("Anthropic request failed", <<>>, <<>>))
                         ELSE HandleReply(called, out.reply,
                                          "Failed to parse JSON", clock)
    /\ UNCHANGED <<clientVars, clock, user_profiles, events, resp, scoreIn, lastEval,
                   prevEval, aiConfig, event_drafts, draftResp, form>>

\* extractFromHtml when its switch reaches no provider function
extractFromHtml ==
    /\ req.pc = "extract"
    /\ Provider(aiConfig) \notin {"groq", "claude"}
    /\ req' = Fail(req, Err(CASE Provider(aiConfig) = "not implemented" ->
                                    "OpenAI extraction not yet implemented"
                              [] Provider(aiConfig) = "no key" ->
                                    "Firecrawl scraping requires either Groq or Claude API key"
                              [] OTHER -> "Unsupported AI service",
                            <<>>, <<>>))
    /\ UNCHANGED <<clientVars, clock, user_profiles, events, resp, scoreIn, lastEval,
                   prevEval, aiConfig, event_drafts, draftResp, form>>

\* a call of extractFromUrl; the previous request, if any, has ended
extractFromUrl(url) ==
    /\ req.pc \in {"idle", "done"}
    /\ req' = BeginRequest(url)
    /\ UNCHANGED <<clientVars, clock, user_profiles, events, resp, scoreIn, lastEval,
                   prevEval, aiConfig, event_drafts, draftResp, form>>

CH_aco == <<"a", ".", "c", "o">>

\* URLs submitted: bare, with scheme and path, blank, scheme only
CH_ftp_h_p == <<"f", "t", "p", ":", "/", "/", "h", "/", "p">>

ExtractUrls ==
    {CH_aco, CH_https \o CH_aco \o <<"/", "n">>, <<" ", " ">>, CH_http,
     CH_ftp_h_p}

\* builds explored: service, and which keys are set
AIConfigs ==
    {[service |-> sv, firecrawlApiKey |-> fk, groqApiKey |-> gk,
      anthropicApiKey |-> ak] :
        sv \in {"groq", "claude", "openai", "firecrawl", "other"},
        fk \in BOOLEAN, gk \in BOOLEAN, ak \in BOOLEAN}

InitExtract ==
    /\ ClientIdle
    /\ clock \in {DayMs + 1, 10 * DayMs}
    /\ aiConfig \in AIConfigs
    /\ req = NoReq
    /\ user_profiles = {}
    /\ events = <<>>
    /\ resp = NoResp
    /\ scoreIn = NoInput
    /\ lastEval = NoEval
    /\ prevEval = NoEval
    /\ event_drafts = <<>>
    /\ draftResp = NoDraftResp
    /\ form = InitialForm(ToISODate(0))

NextExtract ==
    \/ \E url \in ExtractUrls : extractFromUrl(url)
    \/ \E out \in FirecrawlOutcomes : fetchContentFromFirecrawl(out)
    \/ \E out \in FetchOutcomes : fetchHtmlFromUrl(out)
    \/ extractFromHtml
    \/ extractFromHtmlWithGroq(ModelOutcomes)
    \/ extractFromHtmlWithClaude(ModelOutcomes)

\* extraction requests, one after the other, in every build explored
SpecExtract == InitExtract /\ [][NextExtract]_vars

----------------------------------------------------------------------------
(* Properties of the scorer.  E, P and T are the event, the profile and the  *)
(* clock reading of the latest direct call.                                  *)

Evaluated == scoreIn # NoInput /\ lastEval # NoEval

E == scoreIn[1]

P == scoreIn[2]

T == lastEval.now

\* the interest -> category pairs and career -> category pairs of the design
InterestPairs ==
    {<<"money", "economy">>, <<"health", "health">>,
     <<"environment", "environment">>, <<"tech", "technology">>,
     <<"work", "economy">>, <<"work", "technology">>}

CareerPairs ==
    {<<"technology", "technology">>, <<"finance", "economy">>,
     <<"healthcare", "health">>, <<"government", "politics">>,
     <<"media", "social">>, <<"education", "social">>,
     <<"retail", "economy">>, <<"manufacturing", "economy">>}

InterestPart ==
    40 * Cardinality({k \in 1..Len(P.interests) :
                         <<P.interests[k], E.category>> \in InterestPairs})

CareerPart == IF <<P.careerField, E.category>> \in CareerPairs THEN 30 ELSE 0

GeoPart ==
    LET needle == Trim(ToLowerCase(P.country))
        text == ToLowerCase(E.title \o <<" ">> \o E.whatHappened \o <<" ">>
                            \o E.whyPeopleCare \o <<" ">> \o E.whatThisMeans)
    IN  IF /\ needle # <<>>
           /\ \E i \in 1..(Len(text) - Len(needle) + 1) :
                 SubSeq(text, i, i + Len(needle) - 1) = needle
        THEN 20 ELSE 0

\* ceil(d / 1 day): the least n with n days >= d
CeilDays(d) ==
    CHOOSE n \in 0..20 : n * DayMs >= d /\ \A m \in 0..(n - 1) : m * DayMs < d

RecencyPart(t) == Max(0, 10 - CeilDays(Abs(t - E.createdAt)))

\* C2: every score the scorer returns lies in 0..100
Thm_C2 == Evaluated => (0 <= lastEval.score /\ lastEval.score <= 100)

\* a score of 100 returned for an input whose four parts add up to more
Wit_C2 ==
    /\ Evaluated
    /\ lastEval.score = 100
    /\ InterestPart + CareerPart + GeoPart + RecencyPart(T) > 100

TwiceEvaluated == Evaluated /\ prevEval # NoEval

\* C10 as stated: two evaluations of the same event and profile return the
\* same score (the scorer takes the event and the profile, nothing else)
CE_C10 == TwiceEvaluated => lastEval.score = prevEval.score

\* C10 amended: the score is a function of the event, the profile and the
\* clock reading the scorer takes itself: two evaluations of the same event
\* and profile agree when their clock readings lie the same number of
\* started days from the creation time, and never differ by more than 10
Thm_C10 ==
    TwiceEvaluated =>
        /\ CeilDays(Abs(lastEval.now - E.createdAt))
             = CeilDays(Abs(prevEval.now - E.createdAt))
           => lastEval.score = prevEval.score
        /\ Abs(lastEval.score - prevEval.score) <= 10

\* two evaluations a day apart that disagree
Wit_C10 ==
    /\ TwiceEvaluated
    /\ prevEval.now = E.createdAt
    /\ lastEval.now = E.createdAt + DayMs
    /\ prevEval.score = lastEval.score + 1

----------------------------------------------------------------------------
(* Properties of the selectors, stated on the response of a request and the  *)
(* storage it ran against.                                                   *)

IsActive == resp.op = "getActiveEvent"

IsRecs == resp.op = "getEventRecommendations"

\* the events in storage whose expiration is strictly after the request time
Alive == {events[i] : i \in {k \in 1..Len(events) : events[k].expiresAt > resp.now}}

HasProfile == \E p \in user_profiles : p.id = resp.userId

\* the request found the profile, met no storage failure and found an event
Served == (IsActive \/ IsRecs) /\ HasProfile /\ resp.failure = "none" /\ Alive # {}

Scored == {resp.scored[i] : i \in 1..Len(resp.scored)}

Returned == {resp.result[i] : i \in 1..Len(resp.result)}

\* the scored pair of an event the request scored
ScoredOf(e) == CHOOSE se \in Scored : se.event = e

\* a ranks no lower than b: higher score, or equal score and not older
RanksNoLower(a, b) ==
    \/ a.score > b.score
    \/ a.score = b.score /\ a.event.createdAt >= b.event.createdAt

\* C1 as stated: with a non-expired event in storage no request returns
\* null or an empty list
CE_C1 == ((IsActive \/ IsRecs) /\ Alive # {}) => resp.result # <<>>

\* C1 amended: with a non-expired event in storage, a request returns an
\* event (a non-empty list) exactly when the user's profile row exists, both
\* queries succeed and, for the list, n >= 1
Thm_C1 ==
    ((IsActive \/ IsRecs) /\ Alive # {}) =>
        (resp.result # <<>>
            <=> (HasProfile /\ resp.failure = "none" /\ resp.limit >= 1))

\* getActiveEvent returning an event although none meets the threshold
Wit_C1 ==
    /\ IsActive /\ Served
    /\ \A se \in Scored : se.score < 20
    /\ Len(resp.result) = 1

\* C4: getActiveEvent returns an event of maximal score and, among those, of
\* latest creation, when some event scores >= 20; getEventRecommendations
\* returns at most n events, in that order, none ranked below one left out
Thm_C4 ==
    Served =>
        /\ {se.event : se \in Scored} = Alive
        /\ Returned \subseteq Alive
        /\ (IsActive /\ \E se \in Scored : se.score >= 20) =>
              /\ Len(resp.result) = 1
              /\ \A se \in Scored : RanksNoLower(ScoredOf(resp.result[1]), se)
        /\ IsRecs =>
              /\ Len(resp.result) <= resp.limit
              /\ \A i, j \in 1..Len(resp.result) :
                    i < j => /\ resp.result[i] # resp.result[j]
                             /\ RanksNoLower(ScoredOf(resp.result[i]),
                                             ScoredOf(resp.result[j]))
              /\ \A se \in Scored : se.event \notin Returned =>
                    \A e \in Returned : RanksNoLower(ScoredOf(e), se)

\* two events of equal top score created at different times: the later wins
Wit_C4 ==
    /\ IsActive /\ Served
    /\ Len(resp.result) = 1
    /\ \E se \in Scored :
          /\ se.score = ScoredOf(resp.result[1]).score
          /\ se.score >= 20
          /\ se.event.createdAt < resp.result[1].createdAt

Thm_C6 ==
    (IsActive /\ Served) =>
        LET relevant == {se \in Scored : se.score >= 20}
        IN  /\ relevant # {} =>
                 /\ Len(resp.result) = 1
                 /\ ScoredOf(resp.result[1]).score >= 20
            /\ \A se \in relevant :
                 relevant = {se} => resp.result = <<se.event>>

\* an event scoring exactly 20 returned in preference to a later event
\* scoring less
Wit_C6 ==
    /\ IsActive /\ Served
    /\ Len(resp.result) = 1
    /\ ScoredOf(resp.result[1]).score = 20
    /\ \E se \in Scored :
          se.score < 20 /\ se.event.createdAt > resp.result[1].createdAt

\* C7: when no non-expired event scores >= 20, getActiveEvent returns the
\* latest created of the events whose expiration is strictly after the
\* request time; neither selector returns an event that is not
Thm_C7 ==
    /\ (IsActive \/ IsRecs) => \A e \in Returned : e.expiresAt > resp.now
    /\ (IsActive /\ Served /\ \A se \in Scored : se.score < 20) =>
          /\ {se.event : se \in Scored} = Alive
          /\ Len(resp.result) = 1
          /\ resp.result[1] \in Alive
          /\ \A e \in Alive : e.createdAt <= resp.result[1].createdAt

\* the fallback passing over a later created event that expires at the
\* request time
Wit_C7 ==
    /\ IsActive /\ Served
    /\ \A se \in Scored : se.score < 20
    /\ Len(resp.result) = 1
    /\ \E i \in 1..Len(events) :
          /\ events[i].expiresAt = resp.now
          /\ events[i].createdAt > resp.result[1].createdAt

----------------------------------------------------------------------------
(* The draft service over table event_drafts *)

DraftStatuses == {"extracting", "draft", "published", "rejected"}

\* a DATE literal as the database accepts it: YYYY-MM-DD
IsDateLiteral(chars) ==
    /\ Len(chars) = 10
    /\ \A i \in 1..10 :
          IF i \in {5, 8} THEN chars[i] = "-"
          ELSE \E d \in 1..10 : DigitChars[d] = chars[i]

\* the column values updateDraft sends: every column, `|| null` for a key
\* that is not passed or is empty
ColumnsOf(fields) ==
    [title |-> OrNull(fields.title),
     date |-> OrNull(fields.date),
     category |-> OrNull(fields.category),
     what_happened |-> OrNull(fields.whatHappened),
     why_people_care |-> OrNull(fields.whyPeopleCare),
     what_this_means |-> OrNull(fields.whatThisMeans),
     what_likely_does_not_change |-> OrNull(fields.whatLikelyDoesNotChange),
     status |-> IF fields.status = "undefined" THEN "null" ELSE fields.status]

\* NOT NULL and CHECK constraints of event_drafts, and the DATE type
ConstraintsHold(cols) ==
    /\ cols.status \in DraftStatuses
    /\ cols.category = JNull \/ IsValidCategory(cols.category)
    /\ cols.date = JNull \/ (cols.date.t = "string" /\ IsDateLiteral(cols.date.v))

DraftRow(id, adminId, sourceUrl, extractedData, cols, createdAt, updatedAt) ==
    [id |-> id, admin_id |-> adminId, source_url |-> sourceUrl,
     extracted_data |-> extractedData, title |-> cols.title, date |-> cols.date,
     category |-> cols.category, what_happened |-> cols.what_happened,
     why_people_care |-> cols.why_people_care,
     what_this_means |-> cols.what_this_means,
     what_likely_does_not_change |-> cols.what_likely_does_not_change,
     status |-> cols.status, created_at |-> createdAt, updated_at |-> updatedAt]

mapDraftFromDb(dbDraft) ==
    [id |-> dbDraft.id, adminId |-> dbDraft.admin_id,
     sourceUrl |-> dbDraft.source_url, extractedData |-> dbDraft.extracted_data,
     title |-> OrUndefined(dbDraft.title), date |-> OrUndefined(dbDraft.date),
     category |-> OrUndefined(dbDraft.category),
     whatHappened |-> OrUndefined(dbDraft.what_happened),
     whyPeopleCare |-> OrUndefined(dbDraft.why_people_care),
     whatThisMeans |-> OrUndefined(dbDraft.what_this_means),
     whatLikelyDoesNotChange |-> OrUndefined(dbDraft.what_likely_does_not_change),
     status |-> dbDraft.status, createdAt |-> dbDraft.created_at,
     updatedAt |-> dbDraft.updated_at]

\* createDraft's insert: the table afterwards and what the call returns;
\* user is getCurrentUser() or "none", failure a refusal by storage
CreateDraftResult(sourceUrl, extractedData, eventData, user, failure) ==
    LET cols == [ColumnsOf(eventData) EXCEPT !.status = "draft"]
        row == DraftRow(Len(event_drafts) + 1, user, sourceUrl, extractedData,
                        cols, clock, clock)
        ok == user # "none" /\ ~failure /\ ConstraintsHold(cols)
    IN  [ok |-> ok,
         rows |-> IF ok THEN Append(event_drafts, row) ELSE event_drafts,
         draft |-> IF ok THEN mapDraftFromDb(row) ELSE <<>>]

\* updateDraft's update ... eq('id', draftId) ... single()
UpdateDraftResult(draftId, updates, failure) ==
    LET hit == {i \in 1..Len(event_drafts) : event_drafts[i].id = draftId}
        i == CHOOSE k \in hit : TRUE
        cols == ColumnsOf(updates)
        row == DraftRow(draftId, event_drafts[i].admin_id,
                        event_drafts[i].source_url,
                        event_drafts[i].extracted_data, cols,
                        event_drafts[i].created_at, clock)
        ok == ~failure /\ hit # {} /\ ConstraintsHold(cols)
    IN  [ok |-> ok,
         rows |-> IF ok THEN [event_drafts EXCEPT ![i] = row] ELSE event_drafts,
         draft |-> IF ok THEN mapDraftFromDb(row) ELSE <<>>]

createDraft(sourceUrl, extractedData, eventData, user, failure) ==
    /\ Len(event_drafts) < MaxDrafts
    /\ \E res \in {CreateDraftResult(sourceUrl, extractedData, eventData, user,
                                     failure)} :
          /\ event_drafts' = res.rows
          /\ draftResp' = DraftResponse("createDraft", 0, eventData, failure,
                                        res.ok, res.draft)
    /\ UNCHANGED <<clientVars, clock, user_profiles, events, resp, scoreIn, lastEval,
                   prevEval, aiConfig, req, form>>

updateDraft(draftId, updates, failure) ==
    /\ \E res \in {UpdateDraftResult(draftId, updates, failure)} :
          /\ event_drafts' = res.rows
          /\ draftResp' = DraftResponse("updateDraft", draftId, updates, failure,
                                        res.ok, res.draft)
    /\ UNCHANGED <<clientVars, clock, user_profiles, events, resp, scoreIn, lastEval,
                   prevEval, aiConfig, req, form>>

\* what callers pass to createDraft as eventData
CreateInputs ==
    {DraftFields(t, JAbsent, JAbsent, wh, JAbsent, JAbsent, JAbsent, "undefined") :
        t \in {JAbsent, JStr(<<"x">>)}, wh \in {JAbsent, JStr(<<"x">>)}}

\* what callers pass to updateDraft as updates: a status, fields, or both
UpdateInputs ==
    {DraftFields(t, JAbsent, JAbsent, JAbsent, JAbsent, JAbsent, JAbsent, st) :
        t \in {JAbsent, JStr(<<"y">>)}, st \in DraftStatuses \cup {"undefined"}}

InitDraft ==
    /\ ClientIdle
    /\ clock = 0
    /\ event_drafts = <<>>
    /\ draftResp = NoDraftResp
    /\ user_profiles = {}
    /\ events = <<>>
    /\ resp = NoResp
    /\ scoreIn = NoInput
    /\ lastEval = NoEval
    /\ prevEval = NoEval
    /\ aiConfig = DefaultConfig
    /\ req = NoReq
    /\ form = InitialForm(ToISODate(0))

NextDraft ==
    \/ \E eventData \in CreateInputs, user \in {"none", "u1"},
          failure \in BOOLEAN :
          createDraft(CH_aco, GoodPayload, eventData, user, failure)
    \/ \E draftId \in 1..(MaxDrafts + 1), updates \in UpdateInputs,
          failure \in BOOLEAN :
          updateDraft(draftId, updates, failure)

\* any sequence of createDraft and updateDraft calls
SpecDraft == InitDraft /\ [][NextDraft]_vars

----------------------------------------------------------------------------
(* AdminScreen: the form, Extract Content, Save Draft and Create Event *)

DigitValue(c) == (CHOOSE d \in 1..10 : DigitChars[d] = c) - 1

IsDigit(c) == \E d \in 1..10 : DigitChars[d] = c

\* the value of a string of digits
RECURSIVE DigitsValue(_)
DigitsValue(ds) ==
    IF ds = <<>> THEN 0
    ELSE 10 * DigitsValue(SubSeq(ds, 1, Len(ds) - 1)) + DigitValue(ds[Len(ds)])

\* parseInt(text, 10): leading blanks, a sign, then the longest run of
\* digits; NaN when there is no digit
ParseInt(text) ==
    LET t == TrimStart(text)
        signed == t # <<>> /\ t[1] \in {"-", "+"}
        body == IF signed THEN Tail(t) ELSE t
        stop == IndexOfAny(body, {body[k] : k \in {i \in 1..Len(body) : ~IsDigit(body[i])}}, 1)
        ds == SubSeq(body, 1, stop - 1)
    IN  IF ds = <<>> THEN [nan |-> TRUE, n |-> 0]
        ELSE [nan |-> FALSE,
              n |-> IF signed /\ t[1] = "-" THEN -DigitsValue(ds) ELSE DigitsValue(ds)]

\* as RequiredFilled, but only the title is looked at
RequiredFilled_TitleOnly(f) == f.title # <<>>

\* !(!title || !whatHappened || !whyPeopleCare || !whatThisMeans)
RequiredFilled(f) ==
    /\ f.title # <<>>
    /\ f.whatHappened # <<>>
    /\ f.whyPeopleCare # <<>>
    /\ f.whatThisMeans # <<>>

\* the form after setTitle('') ... setEntryMode('manual') of handleSubmit
ResetForm(f, today) ==
    [f EXCEPT !.title = <<>>, !.date = today, !.category = CH_politics,
              !.whatHappened = <<>>, !.whyPeopleCare = <<>>,
              !.whatThisMeans = <<>>, !.whatLikelyDoesNotChange = <<>>,
              !.url = <<>>, !.currentDraftId = 0, !.entryMode = "manual"]

setEntryMode(mode) ==
    /\ form.entryMode # mode
    /\ form' = [form EXCEPT !.entryMode = mode]
    /\ UNCHANGED <<clientVars, clock, user_profiles, events, resp, scoreIn, lastEval,
                   prevEval, aiConfig, req, event_drafts, draftResp>>

\* typing into one of the text inputs; the URL input exists in url mode only
onChangeText(field, text) ==
    /\ field = "url" => form.entryMode = "url"
    /\ form[field] # text
    /\ form' = [form EXCEPT ![field] = text]
    /\ UNCHANGED <<clientVars, clock, user_profiles, events, resp, scoreIn, lastEval,
                   prevEval, aiConfig, req, event_drafts, draftResp>>

\* as handleExtractFromUrl, but a draft in status extracting is inserted
\* before extractFromUrl is called
handleExtractFromUrl_DraftFirst ==
    /\ form.entryMode = "url"
    /\ ~form.extracting
    /\ Trim(form.url) # <<>>
    /\ req.pc = "idle"
    /\ Len(event_drafts) < MaxDrafts
    /\ form' = [form EXCEPT !.extracting = TRUE, !.message = Msg(""),
                            !.messageType = "info"]
    /\ req' = BeginRequest(Trim(form.url))
    /\ event_drafts' =
          Append(event_drafts,
                 DraftRow(Len(event_drafts) + 1, "u1", Trim(form.url), NoPayload,
                          [ColumnsOf(NoFields) EXCEPT !.status = "extracting"],
                          clock, clock))
    /\ UNCHANGED <<clientVars, clock, user_profiles, events, resp, scoreIn, lastEval,
                   prevEval, aiConfig, draftResp>>

\* handleExtractFromUrl up to `await extractFromUrl(url.trim())`; the button
\* is disabled while extracting or while the URL is blank
handleExtractFromUrl ==
    /\ form.entryMode = "url"
    /\ ~form.extracting
    /\ Trim(form.url) # <<>>
    /\ req.pc = "idle"
    /\ form' = [form EXCEPT !.extracting = TRUE, !.message = Msg(""),
                            !.messageType = "info"]
    /\ req' = BeginRequest(Trim(form.url))
    /\ UNCHANGED <<clientVars, clock, user_profiles, events, resp, scoreIn, lastEval,
                   prevEval, aiConfig, event_drafts, draftResp>>

\* the fields createDraft is given by handleExtractFromUrl
ExtractedFields(x) ==
    DraftFields(x.title, x.date, x.category, x.what_happened, x.why_people_care,
                x.what_this_means, x.what_likely_does_not_change, "undefined")

\* handleExtractFromUrl from the settling of extractFromUrl on: fill the
\* form and save a draft, or show the error; user is getCurrentUser(),
\* failure a refusal of the insert by storage
handleExtractFromUrlSettled(user, failure) ==
    /\ form.extracting
    /\ req.pc = "done"
    /\ req' = NoReq
    /\ IF req.outcome = "returned"
       THEN /\ Len(event_drafts) < MaxDrafts
            /\ \E res \in {CreateDraftResult(req.url, req.result,
                                             ExtractedFields(req.result), user,
                                             failure)} :
                  /\ event_drafts' = res.rows
                  /\ form' = [form EXCEPT
                        !.title = req.result.title.v,
                        !.date = req.result.date.v,
                        !.category = req.result.category.v,
                        !.whatHappened = req.result.what_happened.v,
                        !.whyPeopleCare = req.result.why_people_care.v,
                        !.whatThisMeans = req.result.what_this_means.v,
                        !.whatLikelyDoesNotChange =
                            OrEmpty(req.result.what_likely_does_not_change).v,
                        !.currentDraftId = IF res.ok THEN res.draft.id ELSE @,
                        !.message =
                            IF res.ok
                            THEN Msg("Content extracted successfully! Review and edit before publishing.")
                            ELSE Msg("Content extracted, but failed to save draft."),
                        !.messageType = IF res.ok THEN "success" ELSE "error",
                        !.extracting = FALSE]
       ELSE /\ form' = [form EXCEPT !.message = req.error,
                                    !.messageType = "error",
                                    !.extracting = FALSE]
            /\ UNCHANGED event_drafts
    /\ UNCHANGED <<clientVars, clock, user_profiles, events, resp, scoreIn, lastEval,
                   prevEval, aiConfig, draftResp>>

\* the updates handleSaveDraft passes: the form's fields and no status
FormFields(f) ==
    DraftFields(JStr(f.title), JStr(f.date), JStr(f.category),
                JStr(f.whatHappened), JStr(f.whyPeopleCare),
                JStr(f.whatThisMeans),
                OrUndefined(OrNull(JStr(f.whatLikelyDoesNotChange))),
                "undefined")

\* Save Draft is rendered when there is a current draft and is disabled
\* while loading
handleSaveDraft(failure) ==
    /\ form.entryMode = "url"
    /\ form.currentDraftId # 0
    /\ ~form.loading
    /\ \E res \in {UpdateDraftResult(form.currentDraftId, FormFields(form),
                                     failure)} :
          /\ event_drafts' = res.rows
          /\ form' = [form EXCEPT
                !.message = IF res.ok
                            THEN Msg("Draft saved successfully!")
                            ELSE Msg("Failed to save draft. Please try again."),
                !.loading = FALSE]
    /\ UNCHANGED <<clientVars, clock, user_profiles, events, resp, scoreIn, lastEval,
                   prevEval, aiConfig, req, draftResp>>

\* the updates handleSubmit passes after the event was created
PublishedOnly ==
    DraftFields(JAbsent, JAbsent, JAbsent, JAbsent, JAbsent, JAbsent, JAbsent,
                "published")

\* whether the insert of createEvent returns the row: storage did not refuse,
\* date is a DATE, and the new row passes the read policy expires_at > NOW()
EventInserted(f, expiresAt, failure) ==
    /\ ~failure
    /\ IsDateLiteral(f.date)
    /\ IsValidCategory(JStr(f.category))
    /\ expiresAt > clock

\* Create Event, disabled while loading.  failure: storage refuses the
\* insert into events; draftFailure: storage refuses the draft update
handleSubmit(failure, draftFailure) ==
    /\ ~form.loading
    /\ UNCHANGED <<clientVars, clock, user_profiles, resp, scoreIn, lastEval, prevEval,
                   aiConfig, req, draftResp>>
    /\ IF ~RequiredFilled(form)
       THEN /\ form' = [form EXCEPT
                          !.message = Msg("Please fill in all required fields")]
            /\ UNCHANGED <<events, event_drafts>>
       ELSE \E days \in {ParseInt(IF form.expiresInDays = <<>> THEN <<"7">>
                                  ELSE form.expiresInDays)} :
            IF days.nan
            THEN \* toISOString() of an invalid date throws: the handler ends
                 \* after setLoading(true) and setMessage('')
                 /\ form' = [form EXCEPT !.loading = TRUE, !.message = Msg("")]
                 /\ UNCHANGED <<events, event_drafts>>
            ELSE IF EventInserted(form, clock + days.n * DayMs, failure)
            THEN /\ Len(events) < MaxEvents
                 /\ events' =
                      Append(events,
                             MkEvent(Len(events) + 1,
                                     [title |-> form.title,
                                      whatHappened |-> form.whatHappened,
                                      whyPeopleCare |-> form.whyPeopleCare,
                                      whatThisMeans |-> form.whatThisMeans],
                                     CategoryOf(form.category), clock,
                                     clock + days.n * DayMs))
                 /\ IF form.currentDraftId # 0
                    THEN \E res \in {UpdateDraftResult(form.currentDraftId,
                                                       PublishedOnly,
                                                       draftFailure)} :
                           event_drafts' = res.rows
                    ELSE UNCHANGED event_drafts
                 /\ form' = [ResetForm(form, ToISODate(clock)) EXCEPT
                               !.message = Msg("Event created successfully!"),
                               !.loading = FALSE]
            ELSE /\ form' = [form EXCEPT
                        !.message = Msg("Failed to create event. Please try again."),
                        !.loading = FALSE]
                 /\ UNCHANGED <<events, event_drafts>>

\* what the admin types, and into which of the required inputs
AdminTexts == {<<>>, <<"x">>}

AdminTextFields == {"title", "whyPeopleCare"}

AdminUrls == {CH_aco}

AdminExpiries == {<<"7">>, <<"x">>}

\* the answers the network and the model give in the admin flow
AdminFirecrawlOutcomes ==
    {o \in FirecrawlOutcomes :
        o.status = 402 \/ o.content = MarkdownDoc(MinContentLength)}

AdminFetchOutcomes ==
    {o \in FetchOutcomes :
        o.status = 404 \/ o.content = HtmlDoc(MinContentLength)}

\* the model's answers in the admin flow: a rejected call, a complete
\* object, one without a date
AdminModelOutcomes ==
    {o \in ModelOutcomes :
        \/ o.failed
        \/ o.reply \in {Reply("object", GoodPayload),
                        Reply("object", Payload(FieldOk, JAbsent, JStr(CH_social),
                                                FieldOk, FieldOk, FieldOk))}}

AdminConfigs ==
    {c \in AIConfigs : /\ c.groqApiKey /\ c.anthropicApiKey
                       /\ \/ c.service = "groq" /\ c.firecrawlApiKey
                          \/ c.service = "claude" /\ ~c.firecrawlApiKey}

InitAdmin ==
    /\ ClientIdle
    /\ clock = DayMs + 1
    /\ user_profiles = {}
    /\ events = <<>>
    /\ resp = NoResp
    /\ scoreIn = NoInput
    /\ lastEval = NoEval
    /\ prevEval = NoEval
    /\ aiConfig \in AdminConfigs
    /\ req = NoReq
    /\ event_drafts = <<>>
    /\ draftResp = NoDraftResp
    /\ form = InitialForm(ToISODate(clock))

NextAdmin ==
    \/ \E mode \in {"manual", "url"} : setEntryMode(mode)
    \/ \E field \in AdminTextFields, text \in AdminTexts : onChangeText(field, text)
    \/ \E text \in AdminUrls : onChangeText("url", text)
    \/ \E text \in AdminExpiries : onChangeText("expiresInDays", text)
    \/ handleExtractFromUrl
    \/ \E out \in AdminFirecrawlOutcomes : fetchContentFromFirecrawl(out)
    \/ \E out \in AdminFetchOutcomes : fetchHtmlFromUrl(out)
    \/ extractFromHtmlWithGroq(AdminModelOutcomes)
    \/ extractFromHtmlWithClaude(AdminModelOutcomes)
    \/ \E user \in {"u1", "none"}, failure \in BOOLEAN :
          handleExtractFromUrlSettled(user, failure)
    \/ \E failure \in BOOLEAN : handleSaveDraft(failure)
    \/ \E failure \in BOOLEAN, draftFailure \in BOOLEAN :
          handleSubmit(failure, draftFailure)

SpecAdmin == InitAdmin /\ [][NextAdmin]_vars

----------------------------------------------------------------------------
(* EventScreen.loadEvent and the read receipts *)

ReadReceipt(userId, eventId, readAt) ==
    [user_id |-> userId, event_id |-> eventId, read_at |-> readAt]

\* as Upsert, but a plain insert that no uniqueness constraint stops
Upsert_Insert(reads, userId, eventId, readAt) ==
    reads \cup {ReadReceipt(userId, eventId, readAt)}

\* upsert({user_id, event_id, read_at}, {onConflict: 'user_id,event_id'}):
\* the row of the pair, if there is one, takes the new read_at
Upsert(reads, userId, eventId, readAt) ==
    {r \in reads : ~(r.user_id = userId /\ r.event_id = eventId)}
        \cup {ReadReceipt(userId, eventId, readAt)}

\* as MarkEventAsReadResult, but nothing is written
MarkEventAsReadResult_NoWrite(userId, eventId, failure) ==
    [ok |-> ~failure, rows |-> user_event_reads]

\* markEventAsRead: the table afterwards and the boolean returned; failure
\* is a refusal by storage, and the foreign keys need both rows to exist
MarkEventAsReadResult(userId, eventId, failure) ==
    LET ok == /\ ~failure
              /\ \E p \in user_profiles : p.id = userId
              /\ \E i \in 1..Len(events) : events[i].id = eventId
    IN  [ok |-> ok,
         rows |-> IF ok THEN Upsert(user_event_reads, userId, eventId, clock)
                  ELSE user_event_reads]

\* a direct call, as the tile press of the recommendations screen makes it
markEventAsRead(userId, eventId, failure) ==
    /\ \E res \in {MarkEventAsReadResult(userId, eventId, failure)} :
          /\ user_event_reads' = res.rows
          /\ readResp' = [op |-> "markEventAsRead", userId |-> userId,
                          eventId |-> eventId, failure |-> failure,
                          ok |-> res.ok, before |-> user_event_reads]
    /\ UNCHANGED <<adminVars, clock, user_profiles, events, resp, scoreIn,
                   lastEval, prevEval, screen, app>>

\* loadEvent up to `await markEventAsRead`: user is what getCurrentUser()
\* gives, "none" for null
loadEvent(user) ==
    /\ screen.pc = "idle"
    /\ IF user = "none"
       THEN /\ screen' = [screen EXCEPT !.loading = FALSE]
            /\ UNCHANGED <<resp, clock>>
       ELSE \E rows \in EventsQuery(clock) :
            \E failure \in Failures :
            \E scoreAt \in {t \in TimePoints : clock <= t /\ t <= clock + MaxLatency} :
            \E outcome \in {Outcome(user, failure, rows)} :
            \E scored \in {ScoredFor(user, outcome, rows, scoreAt)} :
            \E activeEvent \in {IF outcome = "ok" THEN SelectActive(rows, scored)
                                ELSE <<>>} :
                /\ resp' = Response("getActiveEvent", user, 1, clock, failure,
                                    outcome, scored, activeEvent)
                /\ clock' = scoreAt
                /\ screen' = [pc |-> IF activeEvent # <<>> THEN "mark" ELSE "idle",
                              userId |-> user, event |-> activeEvent,
                              loading |-> FALSE, marked |-> "none"]
    /\ UNCHANGED <<adminVars, user_profiles, events, scoreIn, lastEval,
                   prevEval, user_event_reads, readResp, app>>

\* the rest of loadEvent: await markEventAsRead(user.id, activeEvent.id),
\* whose result is not looked at
loadEventMarked(failure) ==
    /\ screen.pc = "mark"
    /\ \E res \in {MarkEventAsReadResult(screen.userId, screen.event[1].id,
                                         failure)} :
          /\ user_event_reads' = res.rows
          /\ readResp' = [op |-> "markEventAsRead", userId |-> screen.userId,
                          eventId |-> screen.event[1].id, failure |-> failure,
                          ok |-> res.ok, before |-> user_event_reads]
          /\ screen' = [screen EXCEPT !.pc = "idle",
                                      !.marked = IF res.ok THEN "true" ELSE "false"]
    /\ UNCHANGED <<adminVars, clock, user_profiles, events, resp, scoreIn,
                   lastEval, prevEval, app>>

\* what the admin has submitted when readers open the screen
ReadSubmissions ==
    {sub \in Submissions : sub.expiresInDays = 12}

InitRead ==
    /\ AdminIdle
    /\ ClientIdle
    /\ clock = 0
    /\ user_profiles = {ProfileA}
    /\ events = <<>>
    /\ resp = NoResp
    /\ scoreIn = NoInput
    /\ lastEval = NoEval
    /\ prevEval = NoEval

NextRead ==
    \/ Tick
    \/ \E sub \in ReadSubmissions :
          createEvent(sub.text, sub.category, sub.expiresInDays)
    \/ \E user \in Users \cup {"none"} : loadEvent(user)
    \/ \E failure \in BOOLEAN : loadEventMarked(failure)
    \/ \E u \in Users, e \in 1..MaxEvents, failure \in BOOLEAN :
          markEventAsRead(u, e, failure)

SpecRead == InitRead /\ [][NextRead]_vars

----------------------------------------------------------------------------
(* App: the session check, the auth callback and their timers.  Time is
   counted in steps of five seconds since the mount. *)

OperationTicks == 2     \* withTimeout(..., 10000)
SafetyTicks == 3        \* setTimeout(..., 15000)
MaxAppTime == 5         \* the model stops the clock here

setTimeoutDue_Never(deadline) == FALSE

\* setTimeout(callback, ms): the callback is due once the delay has passed
setTimeoutDue(deadline) == app.t >= deadline

\* the row getUserProfile inserts: id, email, onboarding_completed false and
\* the column defaults
NewProfileRow(userId) ==
    [id |-> userId, interests |-> <<>>, careerField |-> NullCareer,
     country |-> NoCountry]

\* the finally blocks: checkSession and the auth callback end with
\* setLoading(false), checkSession().finally clears the safety timer,
\* handleAuthSuccess has no finally
HandlerDone(h, a) ==
    [a EXCEPT !.h[h] = NoHandler,
              !.loading = IF h = "handleAuthSuccess" THEN @ ELSE FALSE,
              !.safety = IF h = "checkSession" /\ @ = "armed"
                         THEN "cleared" ELSE @]

\* setUser(u) followed by withTimeout(getUserProfile(u.id), 10000)
AwaitUserProfile(h, userId, a) ==
    [a EXCEPT !.user = {userId},
              !.h[h] = [pc |-> "getUserProfile", userId |-> userId,
                        deadline |-> a.t + OperationTicks],
              !.call[h] = [pc |-> "select", userId |-> userId, result |-> {},
                           awaited |-> TRUE, failure |-> FALSE]]

\* a call of getUserProfile returns: a call nobody awaits any more is over
CallReturned(c, result, failure) ==
    IF c.awaited
    THEN [c EXCEPT !.pc = "returned", !.result = result,
                   !.failure = c.failure \/ failure]
    ELSE NoCall

\* the auth callback with a session: setUser and the wait for the profile
onAuthStateChange(userId) ==
    /\ app.mounted
    /\ app.h["onAuthStateChange"].pc = "idle"
    /\ app.call["onAuthStateChange"].pc = "none"
    /\ app.t + OperationTicks <= MaxAppTime
    /\ app' = AwaitUserProfile("onAuthStateChange", userId, app)
    /\ UNCHANGED <<adminVars, clock, user_profiles, events, resp, scoreIn,
                   lastEval, prevEval, user_event_reads, screen, readResp>>

\* the auth callback without a session (sign-out): it awaits nothing
onAuthStateChangeSignedOut ==
    /\ app.mounted
    /\ app' = [app EXCEPT !.user = {}, !.userProfile = {}, !.loading = FALSE]
    /\ UNCHANGED <<adminVars, clock, user_profiles, events, resp, scoreIn,
                   lastEval, prevEval, user_event_reads, screen, readResp>>

\* handleAuthSuccess up to its first await
handleAuthSuccess ==
    /\ app.mounted
    /\ app.h["handleAuthSuccess"].pc = "idle"
    /\ app.call["handleAuthSuccess"].pc = "none"
    /\ app.t + 2 * OperationTicks <= MaxAppTime
    /\ app' = [app EXCEPT !.h["handleAuthSuccess"] =
                              [pc |-> "getCurrentUser", userId |-> "",
                               deadline |-> app.t + OperationTicks]]
    /\ UNCHANGED <<adminVars, clock, user_profiles, events, resp, scoreIn,
                   lastEval, prevEval, user_event_reads, screen, readResp>>

\* getCurrentUser settles with a user or with null (it never rejects)
getCurrentUserSettled(h, currentUser) ==
    /\ app.h[h].pc = "getCurrentUser"
    /\ app' = IF currentUser = {}
              THEN HandlerDone(h, app)
              ELSE AwaitUserProfile(h, CHOOSE u \in currentUser : TRUE, app)
    /\ UNCHANGED <<adminVars, clock, user_profiles, events, resp, scoreIn,
                   lastEval, prevEval, user_event_reads, screen, readResp>>

\* getUserProfile, the select: an error other than 'not found' gives null,
\* a row gives the profile, no row leads to the insert
SelectProfile(h, failure) ==
    /\ app.call[h].pc = "select"
    /\ LET c == app.call[h]
           rows == ProfileRows(c.userId)
       IN  app' = [app EXCEPT !.call[h] =
                      IF failure THEN CallReturned(c, {}, TRUE)
                      ELSE IF rows # {} THEN CallReturned(c, rows, FALSE)
                      ELSE [c EXCEPT !.pc = "insert"]]
    /\ UNCHANGED <<adminVars, clock, user_profiles, events, resp, scoreIn,
                   lastEval, prevEval, user_event_reads, screen, readResp>>

\* getUserProfile, auth.getUser and the insert: the primary key of
\* user_profiles refuses a second row of the same id, and createError
\* gives null
InsertProfile(h, failure) ==
    /\ app.call[h].pc = "insert"
    /\ LET c == app.call[h]
           refused == failure \/ ProfileRows(c.userId) # {}
       IN  /\ user_profiles' = IF refused THEN user_profiles
                               ELSE user_profiles \cup {NewProfileRow(c.userId)}
           /\ app' = [app EXCEPT !.call[h] =
                         IF refused THEN CallReturned(c, {}, failure)
                         ELSE CallReturned(c, {NewProfileRow(c.userId)}, FALSE)]
    /\ UNCHANGED <<adminVars, clock, events, resp, scoreIn, lastEval,
                   prevEval, user_event_reads, screen, readResp>>

\* the handler resumes after await withTimeout(getUserProfile(...)):
\* setUserProfile(profile) and the finally block
getUserProfileSettled(h) ==
    /\ app.h[h].pc = "getUserProfile"
    /\ app.call[h].pc = "returned"
    /\ app' = HandlerDone(h, [app EXCEPT !.userProfile = app.call[h].result,
                                         !.call[h] = NoCall])
    /\ UNCHANGED <<adminVars, clock, user_profiles, events, resp, scoreIn,
                   lastEval, prevEval, user_event_reads, screen, readResp>>

\* the timer of withTimeout rejects with 'Operation timed out': the catch
\* block logs, the finally block runs, the operation goes on unawaited
OperationTimeout(h) ==
    /\ app.h[h].pc \in {"getCurrentUser", "getUserProfile"}
    /\ setTimeoutDue(app.h[h].deadline)
    /\ app' = HandlerDone(h, [app EXCEPT !.call[h] =
                                 IF @.pc \in {"none", "returned"} THEN NoCall
                                 ELSE [@ EXCEPT !.awaited = FALSE]])
    /\ UNCHANGED <<adminVars, clock, user_profiles, events, resp, scoreIn,
                   lastEval, prevEval, user_event_reads, screen, readResp>>

\* the safety timer of the mount effect
SafetyTimeout ==
    /\ app.safety = "armed"
    /\ setTimeoutDue(SafetyTicks)
    /\ app' = [app EXCEPT !.loading = FALSE, !.safety = "fired"]
    /\ UNCHANGED <<adminVars, clock, user_profiles, events, resp, scoreIn,
                   lastEval, prevEval, user_event_reads, screen, readResp>>

\* a timer that is due
TimerDue ==
    \/ app.safety = "armed" /\ setTimeoutDue(SafetyTicks)
    \/ \E h \in AppHandlers :
          /\ app.h[h].pc \in {"getCurrentUser", "getUserProfile"}
          /\ setTimeoutDue(app.h[h].deadline)

\* five seconds pass; a timer that is due fires before later time is seen
AppTick ==
    /\ app.mounted
    /\ app.t < MaxAppTime
    /\ ~TimerDue
    /\ app' = [app EXCEPT !.t = @ + 1]
    /\ UNCHANGED <<adminVars, clock, user_profiles, events, resp, scoreIn,
                   lastEval, prevEval, user_event_reads, screen, readResp>>

\* App right after the mount effect: loading, the safety timer armed and
\* checkSession waiting for getCurrentUser
MountedApp ==
    [NoApp EXCEPT !.mounted = TRUE, !.safety = "armed",
                  !.h["checkSession"] =
                      [pc |-> "getCurrentUser", userId |-> "",
                       deadline |-> OperationTicks]]

InitApp ==
    /\ AdminIdle
    /\ user_event_reads = {}
    /\ screen = NoScreen
    /\ readResp = NoReadResp
    /\ app = MountedApp
    /\ clock = 0
    /\ user_profiles \in {{}, {ProfileA}}
    /\ events = <<>>
    /\ resp = NoResp
    /\ scoreIn = NoInput
    /\ lastEval = NoEval
    /\ prevEval = NoEval

NextApp ==
    \/ \E u \in Users : onAuthStateChange(u)
    \/ onAuthStateChangeSignedOut
    \/ handleAuthSuccess
    \/ \E h \in AppHandlers, u \in {{}} \cup {{x} : x \in Users} :
          getCurrentUserSettled(h, u)
    \/ \E h \in AppHandlers, failure \in BOOLEAN : SelectProfile(h, failure)
    \/ \E h \in AppHandlers, failure \in BOOLEAN : InsertProfile(h, failure)
    \/ \E h \in AppHandlers : getUserProfileSettled(h)
    \/ \E h \in AppHandlers : OperationTimeout(h)
    \/ SafetyTimeout
    \/ AppTick

SpecApp == InitApp /\ [][NextApp]_vars

\* timers fire and time passes; nothing obliges getCurrentUser or
\* getUserProfile to settle
SpecAppLive ==
    /\ SpecApp
    /\ WF_vars(AppTick)
    /\ WF_vars(SafetyTimeout)
    /\ \A h \in AppHandlers : WF_vars(OperationTimeout(h))

----------------------------------------------------------------------------
(* Claims about the extraction pipeline, stated on the request record *)

\* the request has ended / has returned a value / has thrown
Ended == req.pc = "done"

GaveData == Ended /\ req.outcome = "returned"

Threw == Ended /\ req.outcome = "thrown"

\* the model's reply parsed to an object, which validation then saw
SawObject == Ended /\ req.extracted.kind = "object"

Required == {"title", "what_happened", "why_people_care", "what_this_means"}

\* a value that is absent, null, or a string of blanks only
AbsentOrBlank(j) ==
    \/ j.t \in {"undefined", "null"}
    \/ j.t = "string" /\ \A i \in 1..Len(j.v) : j.v[i] \in {" ", "\t", "\n"}

AllowedCategories ==
    {[t |-> "string", v |-> w] :
        w \in {<<"p","o","l","i","t","i","c","s">>, <<"e","c","o","n","o","m","y">>,
               <<"t","e","c","h","n","o","l","o","g","y">>, <<"h","e","a","l","t","h">>,
               <<"e","n","v","i","r","o","n","m","e","n","t">>,
               <<"i","n","t","e","r","n","a","t","i","o","n","a","l">>,
               <<"s","o","c","i","a","l">>}}

\* a date the model did not give: absent, null or the empty string
NoDate(j) == j.t \in {"undefined", "null"} \/ (j.t = "string" /\ j.v = <<>>)

\* the ISO calendar date of the clock readings explored
TodayISO ==
    IF clock \div 86400000 = 1
    THEN [t |-> "string", v |-> <<"1","9","7","0","-","0","1","-","0","2">>]
    ELSE IF clock \div 86400000 = 10
    THEN [t |-> "string", v |-> <<"1","9","7","0","-","0","1","-","1","1">>]
    ELSE [t |-> "string", v |-> <<>>]

\* C15: whatever extractFromUrl returns has its four required fields present
\* and not blank strings, a category among the seven allowed ones and a
\* non-empty date, which is today's ISO date when the model gave none and
\* the model's date otherwise; a parsed object violating the field or the
\* category requirement makes the request throw and return nothing.
Thm_C15 ==
    /\ GaveData =>
          /\ \A f \in Required : ~AbsentOrBlank(req.result[f])
          /\ req.result.category \in AllowedCategories
          /\ ~NoDate(req.result.date)
          /\ req.result.date = IF NoDate(req.extracted.obj.date) THEN TodayISO
                               ELSE req.extracted.obj.date
    /\ (SawObject /\ (\/ \E f \in Required : AbsentOrBlank(req.extracted.obj[f])
                      \/ req.extracted.obj.category \notin AllowedCategories))
          => (Threw /\ req.result = NoPayload)

Wit_C15 ==
    /\ GaveData
    /\ req.extracted.obj.date.t = "undefined"
    /\ req.result.date = TodayISO
    /\ clock \div 86400000 = 10

\* C16: when some of the four required fields are absent or blank in the
\* parsed object, the request throws one missing-fields error whose list
\* names every one of them.
Thm_C16 ==
    \A f \in Required :
        (SawObject /\ AbsentOrBlank(req.extracted.obj[f])) =>
            /\ Threw
            /\ req.error.text = "Extraction missing required fields"
            /\ \E i \in 1..Len(req.error.fields) : req.error.fields[i] = f

Wit_C16 ==
    /\ Threw
    /\ AbsentOrBlank(req.extracted.obj.title)
    /\ AbsentOrBlank(req.extracted.obj.what_this_means)
    /\ ~AbsentOrBlank(req.extracted.obj.what_happened)
    /\ Len(req.error.fields) = 2

\* a parsed object without why_people_care and with category sports
SportsWithoutWhy ==
    /\ SawObject
    /\ req.extracted.obj.why_people_care.t = "undefined"
    /\ req.extracted.obj.category = [t |-> "string", v |-> <<"s","p","o","r","t","s">>]

\* C17 as claimed: such an object produces one failure naming both
\* why_people_care as missing and sports as an invalid category.
CE_C17 ==
    SportsWithoutWhy =>
        /\ Threw
        /\ \E i \in 1..Len(req.error.fields) : req.error.fields[i] = "why_people_care"
        /\ req.error.value = <<"s","p","o","r","t","s">>

\* C17 amended: such an object produces one missing-fields failure that
\* names why_people_care and says nothing of the category; sports is
\* reported as an invalid category only when no required field is missing.
Thm_C17 ==
    /\ SportsWithoutWhy =>
          /\ Threw
          /\ req.error.text = "Extraction missing required fields"
          /\ \E i \in 1..Len(req.error.fields) : req.error.fields[i] = "why_people_care"
          /\ req.error.value = <<>>
    /\ (Threw /\ req.error.value = <<"s","p","o","r","t","s">>) =>
          /\ req.error.text = "Invalid category"
          /\ req.error.fields = <<>>
          /\ \A f \in Required : ~AbsentOrBlank(req.extracted.obj[f])

Wit_C17 == SportsWithoutWhy /\ Threw /\ Len(req.error.fields) = 1

\* a web page / Markdown document was fetched and a provider function with
\* its key configured cleaned it
Cleaned ==
    /\ Ended
    /\ req.content # <<>>
    /\ \/ aiConfig.service = "groq" /\ aiConfig.groqApiKey
       \/ aiConfig.service = "claude" /\ aiConfig.anthropicApiKey
       \/ aiConfig.service = "firecrawl"
          /\ (aiConfig.groqApiKey \/ aiConfig.anthropicApiKey)

ModelCalls == req.calls.groq + req.calls.claude

\* the fetched documents whose cleaned text has 99, 100 and 0 characters
ShortDocs == {HtmlDoc(99), MarkdownDoc(99), <<"<p>", "</p>">>}

ExactDocs == {HtmlDoc(100), MarkdownDoc(100)}

\* C18: cleaned content of fewer than 100 characters ends the request with
\* the insufficient-content error before any model call; cleaned content
\* of exactly 100 characters reaches the model call.
Thm_C18 ==
    /\ (Cleaned /\ req.content \in ShortDocs) =>
          /\ Len(req.mainContent) < 100
          /\ Threw
          /\ req.error.text = "Could not extract sufficient content from the webpage"
          /\ ModelCalls = 0
    /\ (Cleaned /\ req.content \in ExactDocs) =>
          /\ Len(req.mainContent) = 100
          /\ ModelCalls = 1

Wit_C18 ==
    /\ Threw
    /\ req.content = HtmlDoc(99)
    /\ Len(req.mainContent) = 99
    /\ ModelCalls = 0

\* the URL passes the fetchers' checks, so that a network request is made
UrlAccepted == req.url \in {CH_aco, CH_https \o CH_aco \o <<"/", "n">>}

\* the stage the request is at or has passed
PastFirecrawl == req.pc \in {"fetch", "extract", "done"}

PastFetch == req.pc \in {"extract", "done"}

FetchErrorTexts ==
    {"URL cannot be empty", "Invalid URL format",
     "Network error: Unable to reach the URL",
     "CORS error: The website blocked the request", "Failed to fetch URL",
     "403 Forbidden", "404 Not Found", "429 Too Many Requests", "Server Error",
     "Received empty response from the URL"}

\* C19: with a scraping-API key the scraping API is called first and the
\* direct fetch only after it failed, and then always; the request fails
\* at the fetch stage only with the direct fetch's error; without a key the
\* scraping API is never called.
Thm_C19 ==
    /\ (aiConfig.firecrawlApiKey /\ PastFirecrawl /\ UrlAccepted) =>
          /\ req.calls.firecrawl = 1
          /\ req.calls.fetch > 0 => req.firecrawlError # NoError
          /\ (PastFetch /\ req.firecrawlError # NoError) => req.calls.fetch = 1
    /\ (Threw /\ req.content = <<>>) =>
          /\ req.error.text \in FetchErrorTexts
          /\ UrlAccepted => req.calls.fetch = 1
    /\ ~aiConfig.firecrawlApiKey => req.calls.firecrawl = 0

Wit_C19 ==
    /\ GaveData
    /\ req.firecrawlError.text = "Firecrawl credits exhausted"
    /\ req.calls.firecrawl = 1
    /\ req.calls.fetch = 1
    /\ ~req.isMarkdown

\* C20: one request makes at most one scraping-API call, one direct fetch
\* and one model call, and a failed model call is followed by no call of
\* either provider.
Thm_C20 ==
    /\ req.calls.firecrawl <= 1
    /\ req.calls.fetch <= 1
    /\ ModelCalls <= 1
    /\ (req.calls.groq = 1 /\ req.error.text = "Groq request failed") =>
          (Ended /\ req.calls.claude = 0)
    /\ (req.calls.claude = 1 /\ req.error.text = "Anthropic request failed") =>
          (Ended /\ req.calls.groq = 0)

Wit_C20 ==
    /\ Threw
    /\ req.error.text = "Groq request failed"
    /\ aiConfig.anthropicApiKey
    /\ req.calls = [firecrawl |-> 1, fetch |-> 1, groq |-> 1, claude |-> 0]

----------------------------------------------------------------------------
(* Claims about the draft service, stated on table event_drafts *)

\* how far along extracting -> draft -> {published, rejected} a status is
StatusRank(st) ==
    CASE st = "extracting" -> 0
      [] st = "draft" -> 1
      [] OTHER -> 2

\* C11 as claimed: no step moves a draft's status backwards, and a
\* published or rejected draft keeps its status for ever.
CE_C11 ==
    [][\A i \in 1..Len(event_drafts) :
          /\ StatusRank(event_drafts'[i].status) >= StatusRank(event_drafts[i].status)
          /\ event_drafts[i].status \in {"published", "rejected"}
                => event_drafts'[i].status = event_drafts[i].status]_vars

\* the updateDraft call just made named an existing draft and storage did
\* not refuse it
UpdatedExisting ==
    /\ draftResp'.op = "updateDraft"
    /\ ~draftResp'.failure
    /\ draftResp'.draftId \in 1..Len(event_drafts)

NoFieldPassed(u) ==
    \A k \in {"title", "date", "category", "whatHappened", "whyPeopleCare",
              "whatThisMeans", "whatLikelyDoesNotChange"} : u[k].t = "undefined"

\* C13 as claimed: an update that passes only a status leaves title, date,
\* category and the narrative fields as they were; an update that passes
\* only fields leaves the status as it was and succeeds.
CE_C13 ==
    [][UpdatedExisting =>
          LET u == draftResp'.updates
              old == event_drafts[draftResp'.draftId]
              new == event_drafts'[draftResp'.draftId]
          IN  /\ (NoFieldPassed(u) /\ u.status # "undefined") =>
                    \A c \in {"title", "date", "category", "what_happened",
                              "why_people_care", "what_this_means",
                              "what_likely_does_not_change"} : new[c] = old[c]
              /\ (~NoFieldPassed(u) /\ u.status = "undefined") =>
                    (draftResp'.ok /\ new.status = old.status)]_vars


----------------------------------------------------------------------------
(* Claims about the admin screen's draft flow, stated on SpecAdmin *)

\* the rows of event_drafts whose status differs before and after a step
StatusChanged ==
    {i \in 1..Len(event_drafts) :
        i <= Len(event_drafts') /\ event_drafts'[i].status # event_drafts[i].status}

\* the step inserted an event that meets the event creation contract
InsertedValidEvent ==
    /\ Len(events') = Len(events) + 1
    /\ SubSeq(events', 1, Len(events)) = events
    /\ \E e \in {events'[Len(events')]} :
          /\ e.title # <<>>
          /\ e.whatHappened # <<>>
          /\ e.whyPeopleCare # <<>>
          /\ e.whatThisMeans # <<>>
          /\ e.category \in EventCategories

\* C12: in the admin flow a draft's status changes only to published, and
\* only in a step that inserted an event whose title, what-happened,
\* why-people-care and what-this-means are non-empty and whose category is
\* one of the seven; a step that inserts no event (the required-field check
\* or the insert failed) changes no draft's status, and no draft is born
\* published.
Thm_C12 ==
    [][/\ \A i \in StatusChanged :
             event_drafts'[i].status = "published" /\ InsertedValidEvent
       /\ \A i \in (Len(event_drafts) + 1)..Len(event_drafts') :
             event_drafts'[i].status # "published"]_vars

\* a draft was published by Create Event and the form was reset
Wit_C12 ==
    /\ \E i \in 1..Len(event_drafts) : event_drafts[i].status = "published"
    /\ events # <<>>
    /\ form.currentDraftId = 0
    /\ form.message = Msg("Event created successfully!")

\* C14 as stated: while extraction is running there is a draft for the
\* submitted URL.
CE_C14 ==
    form.extracting =>
        \E i \in 1..Len(event_drafts) : event_drafts[i].source_url = req.url

\* C14 amended: a draft for the submitted URL is created only by the step
\* that handles the successful return of extractFromUrl, with status draft;
\* no draft is added when extraction begins, while it runs, or after one
\* that failed.
Thm_C14 ==
    [][Len(event_drafts') # Len(event_drafts) =>
          /\ form.extracting
          /\ req.pc = "done"
          /\ req.outcome = "returned"
          /\ event_drafts' =
                Append(event_drafts, event_drafts'[Len(event_drafts')])
          /\ event_drafts'[Len(event_drafts')].status = "draft"
          /\ event_drafts'[Len(event_drafts')].source_url = req.url]_vars

\* extraction has ended and its draft is the form's current draft
Wit_C14 ==
    /\ ~form.extracting
    /\ form.currentDraftId # 0
    /\ \E i \in 1..Len(event_drafts) :
          /\ event_drafts[i].id = form.currentDraftId
          /\ event_drafts[i].status = "draft"
          /\ event_drafts[i].source_url = CH_aco


----------------------------------------------------------------------------
(* Claims about the errors of extractFromUrl *)

ModelCallErrorTexts ==
    {"Groq request failed", "Anthropic request failed",
     "Empty response from Groq API"}

ParseErrorTexts == {"Failed to parse AI response as JSON", "Failed to parse JSON"}

ValidationErrorTexts ==
    {"Extraction missing required fields", "Invalid category",
     "TypeError: Cannot read properties of null"}

ConfigurationErrorTexts ==
    {"Groq API key is not configured", "Anthropic API key is not configured",
     "OpenAI extraction not yet implemented",
     "Firecrawl scraping requires either Groq or Claude API key",
     "Unsupported AI service"}

\* the kinds of failure a caller can tell apart by the Error's message
ErrorKinds(e) ==
    {k \in {"fetch", "insufficient content", "model call", "parse",
            "validation", "configuration"} :
        \/ k = "fetch" /\ e.text \in FetchErrorTexts
        \/ k = "insufficient content"
             /\ e.text = "Could not extract sufficient content from the webpage"
        \/ k = "model call" /\ e.text \in ModelCallErrorTexts
        \/ k = "parse" /\ e.text \in ParseErrorTexts
        \/ k = "validation" /\ e.text \in ValidationErrorTexts
        \/ k = "configuration" /\ e.text \in ConfigurationErrorTexts}

----------------------------------------------------------------------------
(* Claims about the URL checks of the fetchers *)

\* the input names a scheme, and it is neither http nor https
OtherScheme(u) ==
    /\ \E k \in 2..(Len(u) - 2) : SubSeq(u, k, k + 2) = <<":", "/", "/">>
    /\ ~StartsWith(u, CH_http)
    /\ ~StartsWith(u, CH_https)

\* C22 as stated: for a blank input and for an input whose scheme is not
\* http or https no network request is issued, by either fetcher.
CE_C22 ==
    (Trim(req.url) = <<>> \/ OtherScheme(Trim(req.url))) =>
        req.calls.firecrawl = 0 /\ req.calls.fetch = 0


----------------------------------------------------------------------------
(* Claims about storage failures met by the selectors *)

\* C23 as stated: a request that met a storage failure in the profile query
\* or in the events query hands back something other than the null or the
\* empty list of a request that found no non-expired event.
CE_C23 ==
    ((IsActive \/ IsRecs) /\ resp.failure # "none") => resp.result # <<>>


----------------------------------------------------------------------------
(* Claims about the read receipts, stated on SpecRead *)

HasReceipt(reads, userId, eventId) ==
    \E r \in reads : r.user_id = userId /\ r.event_id = eventId

\* C24 as stated: once a getActiveEvent request has returned an event, a
\* read receipt of the user for that event is in storage.
CE_C24 ==
    (IsActive /\ resp.result # <<>>) =>
        HasReceipt(user_event_reads, resp.userId, resp.result[1].id)

\* C24 amended: getActiveEvent itself writes no receipt; its caller
\* loadEvent, after showing the event, calls markEventAsRead for the pair,
\* and when loadEvent has ended with that call returning true the receipt
\* of the pair is in storage; a refusal by storage is swallowed and leaves
\* the table as it was.
Thm_C24 ==
    [][/\ resp' # resp => user_event_reads' = user_event_reads
       /\ (screen'.pc = "idle" /\ screen'.marked = "true") =>
             HasReceipt(user_event_reads', screen'.userId, screen'.event[1].id)
       /\ (screen.pc = "mark" /\ screen'.marked = "false") =>
             user_event_reads' = user_event_reads]_vars

\* loadEvent has shown an event and recorded the receipt for it
Wit_C24 ==
    /\ screen.pc = "idle"
    /\ screen.marked = "true"
    /\ ~screen.loading
    /\ user_event_reads =
          {ReadReceipt(screen.userId, screen.event[1].id, clock)}

\* the latest markEventAsRead call met a receipt of its pair and storage did
\* not refuse it
MarkedAgain ==
    /\ readResp.op = "markEventAsRead"
    /\ ~readResp.failure
    /\ HasReceipt(readResp.before, readResp.userId, readResp.eventId)

OfPair(reads, userId, eventId) ==
    {r \in reads : r.user_id = userId /\ r.event_id = eventId}

----------------------------------------------------------------------------
(* Claims about the Create Event button, stated on SpecAdmin *)

\* C28 as stated: whenever a run of handleSubmit is over, loading is false
\* again, whatever the 'expires in days' input holds; handleSubmit and
\* handleSaveDraft are the only writers of loading and each is one step, so
\* no state between steps has loading true.
CE_C28 == form.loading = FALSE


----------------------------------------------------------------------------
(* Claims about App, stated on SpecApp and SpecAppLive *)

\* C27: after the mount, loading is true for at most the fifteen seconds
\* of the safety timer, and from some moment on it is false for good, even
\* when getCurrentUser and getUserProfile never settle (SpecAppLive obliges
\* only the timers and the passing of time).
Thm_C27 ==
    /\ [](app.loading => app.t <= SafetyTicks)
    /\ <>[](app.loading = FALSE)

\* the safety timer has ended the loading while checkSession still waits
\* for a getUserProfile that has not answered its select
Wit_C27 ==
    /\ app.loading = FALSE
    /\ app.safety = "fired"
    /\ app.h["checkSession"].pc = "getUserProfile"
    /\ app.call["checkSession"].pc = "select"

\* C29 as stated: user_profiles holds at most one row per user, and every
\* call of getUserProfile that met no storage failure returns a profile.
CE_C29 ==
    /\ \A u \in Users : Cardinality(ProfileRows(u)) <= 1
    /\ \A h \in AppHandlers :
          (app.call[h].pc = "returned" /\ ~app.call[h].failure)
              => app.call[h].result # {}

\* no handler is between two of its awaits
HandlersCompleted ==
    \A h \in AppHandlers : app.h[h].pc = "idle"

\* C30 as stated: once every handler has completed, a profile is held only
\* together with a user.
CE_C30 ==
    HandlersCompleted => (app.userProfile # {} => app.user # {})

====
